---- MODULE Spec2Model ----
(***************************************************************************)
(* The exec-host server and its approval broker                            *)
(* (apps/windows/src-tauri/src/main.rs).                                   *)
(*                                                                         *)
(* Every connection of the local IPC endpoint runs handle_socket_connection: *)
(* it reads one request line at a time, hands it to process_socket_line and *)
(* writes the response.  handle_exec_message and handle_approval_request   *)
(* register a PendingApproval, block in rx.recv_timeout and remove the     *)
(* entry again; decide_approval is called by the UI.                       *)
(*                                                                         *)
(* Encoding of the Rust values:                                            *)
(*   Option<T>     None is <<>>, Some(x) is <<x>>                          *)
(*   String        a sequence of tokens (one-character strings or opaque   *)
(*                 fragments), so that format!() is concatenation; short   *)
(*                 identifiers that are only compared are TLA+ strings     *)
(*   HashMap       a function (a record) from key to value                 *)
(***************************************************************************)
EXTENDS Integers, Sequences, FiniteSets, TLC

\* ------------------------------------------------------------------ bounds
MaxConn == 2        \* connections accepted by start_exec_host_server
MaxLines == 2       \* request lines read over all connections
MaxDecide == 2      \* decide_approval calls made by the UI
StartMs == 100000   \* now_ms() when the server starts
MaxSessions == 2    \* run_gateway_connection tasks: the automatic one and those of gateway_connect
MaxCalls == 1       \* gateway_rpc calls
MaxFrames == 2      \* frames the gateway sends after the connection is open
MaxDisconnects == 1 \* gateway_disconnect calls
TickMs == 10000
MaxLaunches == 2     \* runs of the application
WorkerThreads == 2   \* worker threads of the async runtime
MaxTaskInputs == 2   \* request lines of a connection, frames of the session
MaxNodeThreads == 1
MaxNodeCalls == 2
MaxWorkers == 2
MaxLogLines == 1
MaxStoreTasks == 2      \* run_gateway_connection tasks that use the identity file
MaxCrashes == 1         \* times the process dies and is started again
NodeTickMs == 5000     \* the longest step of the clock while a gateway timer runs

\* ------------------------------------------------------- program constants
HMAC_MAX_DRIFT_MS == 60000
APPROVAL_TIMEOUT_MS == 120000
STOP_GRACE_MS == 5000
STARTING_FALLBACK_MS == 5000
HANDSHAKE_READ_TIMEOUT_MS == 15000   \* Duration::from_secs(15) around read.next()
RPC_TIMEOUT_MS == 30000              \* Duration::from_secs(30) around reply_rx

Conns == 1..MaxConn
StoreTasks == 1..MaxStoreTasks
Sessions == 1..MaxSessions

\* ---------------------------------------------------------------- Option<T>
None == <<>>
Some(x) == <<x>>
IsSome(o) == Len(o) = 1
Unwrap(o) == o[1]

\* ------------------------------------------------------------------ strings
\* u64 Display: the decimal digits of n, most significant first.
Digit(d) ==
  CASE d = 0 -> "0" [] d = 1 -> "1" [] d = 2 -> "2" [] d = 3 -> "3" [] d = 4 -> "4"
    [] d = 5 -> "5" [] d = 6 -> "6" [] d = 7 -> "7" [] d = 8 -> "8" [] d = 9 -> "9"

RECURSIVE u64_to_string(_)
u64_to_string(n) ==
  IF n < 10 THEN <<Digit(n)>> ELSE u64_to_string(n \div 10) \o <<Digit(n % 10)>>

\* format!("{}:{}:{}", nonce, ts, request_json)
hmac_message(nonce, ts, request_json) ==
  nonce \o <<":">> \o u64_to_string(ts) \o <<":">> \o request_json

\* hex::encode(HMAC-SHA256(key, message)): an ideal MAC, determined by the key
\* and the message and by nothing else.
hmac_sha256_hex(key, message) == <<key, message>>

\* A variant that recomputes the message but never the key.
validate_hmac_any_key(token, nonce, ts, request_json, expected) ==
  hmac_message(nonce, ts, request_json) = expected[2]

validate_hmac(token, nonce, ts, request_json, expected) ==
  hmac_sha256_hex(token, hmac_message(nonce, ts, request_json)) = expected

\* generate_token(): 32 random bytes, hex encoded; "k1" stands for the value
\* drawn at this start, "k2" for any other value.
generate_token == "k1"
Secrets == {"k1", "k2"}

\* ------------------------------------------------ requestJson and its parse
\* A JSON object text is "{" member ... member "}"; member_key, member_ok and
\* the *_val tables give the meaning of each member fragment.
member_key(tok) ==
  CASE tok \in {"command:[ls]", "command:[]", "command:ls"} -> "command"
    [] tok \in {"env:{A:1}", "env:{A:1,B:1}", "env:{A:1,B:2}"} -> "env"
    [] tok \in {"approvalDecision:deny", "approvalDecision:allow-once",
                "approvalDecision:allow-always", "approvalDecision:ask"} -> "approvalDecision"
    [] tok = "cwd:/tmp" -> "cwd"
    [] tok = "rawCommand:ls" -> "rawCommand"
    [] tok = "agentId:main" -> "agentId"
    [] tok = "sessionKey:s1" -> "sessionKey"
    [] tok = "timeoutMs:5" -> "timeoutMs"
    [] OTHER -> "?"

\* FALSE for a fragment that is no JSON member or whose value has the wrong
\* type for the field of ExecHostRequest it names.
member_ok(tok) == member_key(tok) # "?" /\ tok # "command:ls"

command_val(tok) == IF tok = "command:[ls]" THEN <<"ls">> ELSE <<>>

env_val(tok) ==
  CASE tok = "env:{A:1}" -> [A |-> "1"]
    [] tok = "env:{A:1,B:1}" -> [A |-> "1", B |-> "1"]
    [] tok = "env:{A:1,B:2}" -> [A |-> "1", B |-> "2"]

str_val(tok) ==
  CASE tok = "approvalDecision:deny" -> "deny"
    [] tok = "approvalDecision:allow-once" -> "allow-once"
    [] tok = "approvalDecision:allow-always" -> "allow-always"
    [] tok = "approvalDecision:ask" -> "ask"
    [] tok = "cwd:/tmp" -> "/tmp"
    [] tok = "rawCommand:ls" -> "ls"
    [] tok = "agentId:main" -> "main"
    [] tok = "sessionKey:s1" -> "s1"

int_val(tok) == IF tok = "timeoutMs:5" THEN 5 ELSE 0

member_at(text, k) == {i \in 2..(Len(text) - 1) : member_key(text[i]) = k}
has_member(text, k) == member_at(text, k) # {}
member_of(text, k) == text[CHOOSE i \in member_at(text, k) : TRUE]
opt_str(text, k) == IF has_member(text, k) THEN Some(str_val(member_of(text, k))) ELSE None

\* serde_json::from_str::<ExecHostRequest>: `command` is required, every other
\* field is an Option, unknown fields are ignored.
parse_exec_host_request(text) ==
  IF \/ Len(text) < 2
     \/ text[1] # "{"
     \/ text[Len(text)] # "}"
     \/ \E i \in 2..(Len(text) - 1) : ~member_ok(text[i])
     \/ ~has_member(text, "command")
  THEN [ok |-> FALSE]
  ELSE [ok |-> TRUE,
        command |-> command_val(member_of(text, "command")),
        raw_command |-> opt_str(text, "rawCommand"),
        cwd |-> opt_str(text, "cwd"),
        env |-> IF has_member(text, "env") THEN Some(env_val(member_of(text, "env"))) ELSE None,
        timeout_ms |-> IF has_member(text, "timeoutMs")
                       THEN Some(int_val(member_of(text, "timeoutMs"))) ELSE None,
        agent_id |-> opt_str(text, "agentId"),
        session_key |-> opt_str(text, "sessionKey"),
        approval_decision |-> opt_str(text, "approvalDecision")]

Obj(members) == <<"{">> \o members \o <<"}">>

\* The request texts the clients send.
ValidRequestJsons ==
  { Obj(<<"command:[ls]">>),
    Obj(<<"command:[ls]", "approvalDecision:deny">>),
    Obj(<<"command:[ls]", "approvalDecision:allow-once">>),
    Obj(<<"approvalDecision:allow-always", "command:[ls]", "cwd:/tmp">>),
    Obj(<<"command:[ls]", "approvalDecision:ask">>),
    Obj(<<"command:[]", "approvalDecision:allow-once">>),
    Obj(<<"command:[ls]", "env:{A:1,B:1}", "rawCommand:ls", "agentId:main">>),
    Obj(<<"command:[ls]", "env:{A:1,B:2}", "rawCommand:ls", "agentId:main">>) }

BadRequestJsons ==
  { <<"oops">>, Obj(<<>>), Obj(<<"command:ls">>), Obj(<<"env:{A:1}", "timeoutMs:5">>) }

\* --------------------------------------------------------------- wire types
\* A request line is a JSON object; a missing member and a null member are
\* both the None of the Option field they deserialize to.  `ts` carries its
\* JSON type: a number that fits u64, or something else.
NoTs == [ty |-> "absent", v |-> 0]
U64Ts(t) == [ty |-> "u64", v |-> t]
StrTs == [ty |-> "str", v |-> 0]

\* serde_json::from_str::<ExecEnvelope>: fails when a member has the wrong type.
parse_exec_envelope(line) ==
  IF line.ts.ty = "str"
  THEN [ok |-> FALSE]
  ELSE [ok |-> TRUE,
        msg_type |-> line.type,
        nonce |-> line.nonce,
        ts |-> IF line.ts.ty = "u64" THEN Some(line.ts.v) ELSE None,
        hmac |-> line.hmac,
        request_json |-> line.requestJson]

\* serde_json::from_str::<ApprovalRequestEnvelope>
parse_approval_envelope(line) ==
  [ok |-> TRUE,
   msg_type |-> line.type,
   token |-> line.token,
   id |-> line.id,
   request |-> line.request]

\* process_socket_line: which handler gets the line.
dispatch(line) ==
  IF parse_exec_envelope(line).ok /\ parse_exec_envelope(line).msg_type = "exec"
  THEN "exec"
  ELSE IF parse_approval_envelope(line).ok /\ parse_approval_envelope(line).msg_type = "request"
  THEN "request"
  ELSE "unknown-type"

\* ---------------------------------------------------------- exec validation
present(o) == IsSome(o) /\ Unwrap(o) # <<>>

abs_diff(current, ts) == IF current > ts THEN current - ts ELSE ts - current

\* A variant that verifies the HMAC before the drift.
exec_validation_hmac_first(envelope, tok, current) ==
  IF ~present(envelope.nonce) THEN "missing-nonce"
  ELSE IF ~IsSome(envelope.ts) THEN "missing-ts"
  ELSE IF ~present(envelope.hmac) THEN "missing-hmac"
  ELSE IF ~present(envelope.request_json) THEN "missing-request"
  ELSE IF ~validate_hmac(tok, Unwrap(envelope.nonce), Unwrap(envelope.ts),
                         Unwrap(envelope.request_json), Unwrap(envelope.hmac))
  THEN "hmac-mismatch"
  ELSE IF abs_diff(current, Unwrap(envelope.ts)) > HMAC_MAX_DRIFT_MS THEN "expired"
  ELSE IF ~parse_exec_host_request(Unwrap(envelope.request_json)).ok THEN "bad-request"
  ELSE "ok"

\* A variant that reads the timestamp before the nonce.
exec_validation_ts_first(envelope, tok, current) ==
  IF ~IsSome(envelope.ts) THEN "missing-ts"
  ELSE IF ~present(envelope.nonce) THEN "missing-nonce"
  ELSE IF ~present(envelope.hmac) THEN "missing-hmac"
  ELSE IF ~present(envelope.request_json) THEN "missing-request"
  ELSE IF abs_diff(current, Unwrap(envelope.ts)) > HMAC_MAX_DRIFT_MS THEN "expired"
  ELSE IF ~validate_hmac(tok, Unwrap(envelope.nonce), Unwrap(envelope.ts),
                         Unwrap(envelope.request_json), Unwrap(envelope.hmac))
  THEN "hmac-mismatch"
  ELSE IF ~parse_exec_host_request(Unwrap(envelope.request_json)).ok THEN "bad-request"
  ELSE "ok"

\* handle_exec_message up to the parse of requestJson: the code of the check
\* that returns, or "ok".
exec_validation(envelope, tok, current) ==
  IF ~present(envelope.nonce) THEN "missing-nonce"
  ELSE IF ~IsSome(envelope.ts) THEN "missing-ts"
  ELSE IF ~present(envelope.hmac) THEN "missing-hmac"
  ELSE IF ~present(envelope.request_json) THEN "missing-request"
  ELSE IF abs_diff(current, Unwrap(envelope.ts)) > HMAC_MAX_DRIFT_MS THEN "expired"
  ELSE IF ~validate_hmac(tok, Unwrap(envelope.nonce), Unwrap(envelope.ts),
                         Unwrap(envelope.request_json), Unwrap(envelope.hmac))
  THEN "hmac-mismatch"
  ELSE IF ~parse_exec_host_request(Unwrap(envelope.request_json)).ok THEN "bad-request"
  ELSE "ok"

\* A variant that runs directly on any decision but "deny".
runs_directly_unless_deny(request) ==
  IsSome(request.approval_decision) /\ Unwrap(request.approval_decision) # "deny"

\* handle_exec_message: `if let Some(ref decision) = request.approval_decision`
runs_directly(request) ==
  /\ IsSome(request.approval_decision)
  /\ Unwrap(request.approval_decision) \in {"allow-once", "allow-always"}

\* ----------------------------------------------------------------- previews
RECURSIVE orders_of(_)
orders_of(keys) ==
  IF keys = {} THEN {<<>>}
  ELSE UNION { { <<k>> \o rest : rest \in orders_of(keys \ {k}) } : k \in keys }

\* e.keys().cloned().collect(): the keys of a HashMap in its iteration order,
\* which the hasher's per-map random state decides.
key_orders(env) == IF IsSome(env) THEN orders_of(DOMAIN Unwrap(env)) ELSE {<<>>}

\* A variant that collects the values of env, not its keys.
exec_preview_with_values(approval_id, request, keys, expires) ==
  [id |-> approval_id,
   raw_command |-> request.raw_command,
   argv |-> request.command,
   cwd |-> request.cwd,
   env_keys |-> [i \in 1..Len(keys) |-> Unwrap(request.env)[keys[i]]],
   agent_id |-> request.agent_id,
   session_key |-> request.session_key,
   expires_at_ms |-> expires]

\* The ApprovalPreview built by handle_exec_message.
exec_preview(approval_id, request, keys, expires) ==
  [id |-> approval_id,
   raw_command |-> request.raw_command,
   argv |-> request.command,
   cwd |-> request.cwd,
   env_keys |-> keys,
   agent_id |-> request.agent_id,
   session_key |-> request.session_key,
   expires_at_ms |-> expires]

\* serde_json::Value::Null: every get() is None.
NullValue ==
  [command |-> None, commandArgv |-> None, cwd |-> None,
   agentId |-> None, sessionKey |-> None, envKeys |-> None]

\* The ApprovalPreview built by handle_approval_request.
remote_preview(req_id, value, expires) ==
  [id |-> req_id,
   raw_command |-> Some(IF IsSome(value.command) THEN Unwrap(value.command) ELSE ""),
   argv |-> IF IsSome(value.commandArgv) THEN Unwrap(value.commandArgv) ELSE <<>>,
   cwd |-> value.cwd,
   env_keys |-> IF IsSome(value.envKeys) THEN Unwrap(value.envKeys) ELSE <<>>,
   agent_id |-> value.agentId,
   session_key |-> value.sessionKey,
   expires_at_ms |-> expires]

\* A variant that lets an envelope without a token through.
approval_token_ok_or_absent(envelope, tok) ==
  envelope.token = None \/ envelope.token = Some(tok)

\* A variant that compares with a secret of its own.
approval_token_ok_fixed(envelope, tok) ==
  envelope.token = Some("k2")

\* handle_approval_request: `envelope.token.as_deref() != Some(token)`
approval_token_ok(envelope, tok) == envelope.token = Some(tok)

\* uuid_v4(): 122 random bits; the n-th call returns a value no earlier call
\* returned.
uuid_v4(n) == <<"uuid">> \o u64_to_string(n)

\* -------------------------------------------------------------------- state
VARIABLES
  token,              \* approval_token of main(), handed to every connection
  now,                \* the clock read by now_ms()
  pending_approvals,  \* AppState.pending_approvals: Vec<PendingApproval>
  pc,                 \* where each connection's handler stands
  cur,                \* the locals of the request a connection is handling
  chan,               \* the sync_channel(1) buffer of each handler's (tx, rx)
  uuids,              \* number of uuid_v4() calls so far
  lines,              \* number of request lines read so far
  decided,            \* decide_approval: calls so far, ids that had a decision accepted
  out,                \* the response the latest step wrote, and what its request did
  ret,                \* what the latest step returned from decide_approval
  io                  \* per connection: lines read and response lines written so far

\* The gateway client (gateway.rs).
VARIABLES
  status,             \* GatewayState.status
  tx,                 \* GatewayState.tx: the session whose rpc_tx is installed
  seq,                \* GatewayState.seq
  sessions,           \* the run_gateway_connection tasks
  rpcs,               \* the gateway_rpc calls
  disconnects,        \* gateway_disconnect: calls made, and where the running one stands
  inbound,            \* frames received from the gateway so far
  emitted             \* what the latest step published with app.emit

\* The parts of the program that are checked on their own.
VARIABLES
  connect,            \* run_gateway_connection: the locals that make the connect request
  target_os,          \* cfg(target_os): the build
  runtime,            \* AppState.runtime: child, last_error, node_status (and what was emitted last)
  workers,            \* the worker processes spawned so far, with their reader and fallback threads
  node_calls,         \* the threads that call start, stop and restart
  run,                \* run_exec_command: its locals, the child and the two pipes
  store,              \* the device identity file and the task that loads and saves it
  approvals_file,     \* exec-approvals.json and the run of the application that registers in it
  pool                \* the tasks of the async runtime and the worker threads they hold

exec_vars == <<token, pending_approvals, pc, cur, chan, uuids, lines, decided, out, ret, io>>
gvars == <<status, tx, seq, sessions, rpcs, disconnects, inbound, emitted>>

\* The gateway_rpc calls.
Calls == DOMAIN rpcs

\* The threads that call start, stop and restart.
NodeThreads == DOMAIN node_calls
node_vars == <<target_os, runtime, workers, node_calls>>
host_vars == <<approvals_file, pool>>
unit_vars == <<connect, target_os, runtime, workers, node_calls, run, store, host_vars>>
vars == <<token, now, pending_approvals, pc, cur, chan, uuids, lines, decided, out, ret, io,
          status, tx, seq, sessions, rpcs, disconnects, inbound, emitted, connect,
          target_os, runtime, workers, node_calls, run, store, approvals_file, pool>>

NoCur ==
  [kind |-> "none", direct |-> FALSE, line |-> None, at |-> 0, request |-> None,
   id |-> <<>>, deadline |-> 0, auth |-> None, decision |-> "", how |-> "", accepted |-> <<>>, events |-> <<>>,
   removed |-> 0]

NoOut ==
  [conn |-> 0, resp |-> None, line |-> None, kind |-> "none", via |-> "none", auth |-> None,
   decision |-> "", how |-> "", accepted |-> <<>>, spawned |-> FALSE, removed |-> 0,
   events |-> <<>>]

\* A request that was answered before anything was registered or run.
Answered(c, line, kind, auth, response) ==
  [NoOut EXCEPT !.conn = c, !.resp = Some(response), !.line = Some(line), !.kind = kind,
                !.auth = auth]

NoRet == [result |-> "", to |-> 0, repeat |-> FALSE]

\* Nothing read from a connection and nothing written to it yet.
NoIo == [read |-> 0, blank |-> 0, bad |-> 0, written |-> 0, rejected |-> 0]

\* make_error_response / make_success_response / the decision frame
make_error_response(code) == [type |-> "exec-res", ok |-> FALSE, code |-> code]
make_success_response(result) == [type |-> "exec-res", ok |-> TRUE, code |-> "", payload |-> result]
decision_frame(decision) == [type |-> "decision", ok |-> TRUE, code |-> "", decision |-> decision]

\* GatewayConnectionStatus, as far as the session writes it.
Status(state, error, pairing_request_id, device_id) ==
  [state |-> state, error |-> error,
   pairing_request_id |-> pairing_request_id, device_id |-> device_id]

\* impl Default for GatewayConnectionStatus
DefaultStatus == Status("disconnected", None, None, None)

\* identity.device_id of the loaded DeviceIdentity
DeviceId == "device"

\* A run_gateway_connection task that was not spawned yet.
NoSession ==
  [pc |-> "none", by |-> "", connect_id |-> 0, sent_at |-> 0, read_deadline |-> 0,
   ended |-> FALSE, queue |-> <<>>, pending |-> {}, sent |-> 0, end |-> ""]

\* A gateway_rpc call that was not made yet.
NoRpc ==
  [pc |-> "idle", session |-> 0, id |-> 0, deadline |-> 0, seen |-> "", framed |-> FALSE,
   result |-> ""]

NoEmit == [event |-> "", session |-> 0, error |-> None, request_id |-> None, device_id |-> None]

\* main(): the setup hook spawns run_gateway_connection once, without
\* touching the status; GatewayState::new() is behind it.
InitGateway ==
  /\ status = DefaultStatus
  /\ tx = None
  /\ seq = 0
  /\ sessions = [s \in Sessions |->
                   IF s = 1 THEN [NoSession EXCEPT !.pc = "connecting", !.by = "main"]
                   ELSE NoSession]
  /\ rpcs = [k \in 1..MaxCalls |-> NoRpc]
  /\ disconnects = [calls |-> 0, pc |-> "idle"]
  /\ inbound = 0
  /\ emitted = NoEmit

\* The locals of a run_gateway_connection that has not got to its connect request.
NoConnect ==
  [pc |-> "none", token |-> None, password |-> None, url |-> "",
   identity |-> [device_id |-> "", public_key_bytes |-> "", private_key_bytes |-> "",
                 gateway_tokens |-> <<>>],
   first |-> [kind |-> ""], nonce |-> None, request |-> None]

\* A thread that is in none of start_node_internal, stop_node_internal and
\* restart_node_internal.
NoNodeCall ==
  [pc |-> "idle", op |-> "", child |-> 0, deadline |-> 0, result |-> "", made |-> 0,
   alone |-> TRUE, starts_only |-> TRUE]

\* The units stand still in the specifications of the exec host and the gateway.
\* RuntimeState::default(), no worker spawned, no call made.
InitRuntime ==
  /\ runtime = [child |-> None, last_error |-> None, node_status |-> None, emitted |-> ""]
  /\ workers = <<>>
  /\ node_calls = [t \in 1..MaxNodeThreads |-> NoNodeCall]

\* run_exec_command has not been called.
NoRun ==
  [pc |-> "none", command |-> <<>>, timeout_ms |-> None, started |-> 0, deadline |-> 0,
   child |-> "none", exited_at |-> 0, todo |-> [stdout |-> 0, stderr |-> 0],
   pipe |-> [stdout |-> 0, stderr |-> 0], read |-> [stdout |-> 0, stderr |-> 0],
   result |-> None]

\* A task that has not called load_or_create_device_identity.
NoStoreTask == [pc |-> "none", url |-> "", identity |-> None, found |-> ""]

\* No identity file, and nothing loading or saving it. `last` is the latest
\* complete identity the file has held, `intact` tells that no crash has left
\* the file cut short since, `keys` counts the key pairs generated.
NoStore ==
  [file |-> None, last |-> None, intact |-> FALSE, keys |-> 0, crashes |-> 0,
   tasks |-> [t \in StoreTasks |-> NoStoreTask]]

InitNode ==
  /\ target_os = "windows"
  /\ InitRuntime

\* No exec-approvals.json, and the application not launched.
NoApprovals ==
  [file |-> None, phase |-> "none", token |-> "", launches |-> 0, op |-> "none",
   ok |-> FALSE]

\* A task of the async runtime that awaits its input.
NoTask == [pc |-> "parked", deadline |-> 0, handled |-> 0]

InitHost ==
  /\ approvals_file = NoApprovals
  /\ pool = [task \in 1..(WorkerThreads + 2) |-> NoTask]

InitUnits ==
  /\ connect = NoConnect
  /\ InitNode
  /\ run = NoRun
  /\ store = NoStore
  /\ InitHost

\* run_exec_host before its first connection.
InitExec ==
  /\ token = generate_token
  /\ now = StartMs
  /\ pending_approvals = <<>>
  /\ pc = [c \in Conns |-> "idle"]
  /\ cur = [c \in Conns |-> NoCur]
  /\ chan = [c \in Conns |-> None]
  /\ uuids = 0
  /\ lines = 0
  /\ decided = [calls |-> 0, ids |-> {}]
  /\ out = NoOut
  /\ ret = NoRet
  /\ io = [c \in Conns |-> NoIo]

Init ==
  /\ InitExec
  /\ InitGateway
  /\ InitUnits

\* process_socket_line hands the connection's `token` to both handlers:
\* handle_exec_message(envelope, app, token) keys the HMAC with it,
\* handle_approval_request(envelope, app, token) compares the envelope's
\* token with it.
exec_hmac_key == token
approval_shared_token == token

\* ------------------------------------------------------------ request lines
ExecLine(nonce, ts, hmac, requestJson) ==
  [type |-> "exec", nonce |-> nonce, ts |-> ts, hmac |-> hmac, requestJson |-> requestJson,
   token |-> None, id |-> None, request |-> None]

RemoteLine(tok, id, request) ==
  [type |-> "request", nonce |-> None, ts |-> NoTs, hmac |-> None, requestJson |-> None,
   token |-> tok, id |-> id, request |-> request]

OrEmpty(o) == IF IsSome(o) THEN Unwrap(o) ELSE <<>>

\* The digest a client that holds `key` computes for the fields it sends.
SignedBy(key, nonce, ts, requestJson) ==
  hmac_sha256_hex(key, hmac_message(OrEmpty(nonce), ts.v, OrEmpty(requestJson)))

Nonces == {None, Some(<<>>), Some(<<"n">>)}

Timestamps(current) ==
  {NoTs, U64Ts(current), U64Ts(current - HMAC_MAX_DRIFT_MS), U64Ts(current + HMAC_MAX_DRIFT_MS),
   U64Ts(current - HMAC_MAX_DRIFT_MS - 1), U64Ts(current + HMAC_MAX_DRIFT_MS + 1)}

Hmacs(nonce, ts, requestJson) ==
  {None, Some(<<>>)} \cup {Some(SignedBy(k, nonce, ts, requestJson)) : k \in Secrets}

BaseRequestJson == Obj(<<"command:[ls]">>)

RequestJsons ==
  {None, Some(<<>>)} \cup {Some(t) : t \in BadRequestJsons \cup ValidRequestJsons}

RemoteValue ==
  [command |-> Some("ls -l"), commandArgv |-> Some(<<"ls", "-l">>), cwd |-> Some("/tmp"),
   agentId |-> None, sessionKey |-> None, envKeys |-> Some(<<"A">>)]

\* The id a remote caller puts in its envelope.
CallerIds == {<<"a">>}

RemoteLines ==
  { RemoteLine(Some(token), Some(i), Some(RemoteValue)) : i \in CallerIds }
    \cup { RemoteLine(Some(token), None, None) }
    \cup { RemoteLine(tok, Some(<<"a">>), Some(RemoteValue)) :
             tok \in {None} \cup {Some(k) : k \in Secrets \ {token}} }

OtherLines ==
  { [type |-> "ping", nonce |-> None, ts |-> NoTs, hmac |-> None, requestJson |-> None,
     token |-> None, id |-> None, request |-> None],
    ExecLine(Some(<<"n">>), StrTs, Some(<<>>), Some(BaseRequestJson)) }

EnvRequestJsons ==
  { Obj(<<"command:[ls]", "env:{A:1,B:1}", "rawCommand:ls", "agentId:main">>),
    Obj(<<"command:[ls]", "env:{A:1,B:2}", "rawCommand:ls", "agentId:main">>) }

\* The exec lines of the concurrent runs: well-formed envelopes around two
\* requests that need an approval and one that carries its decision, and an
\* envelope signed with another key.
MainExecLines(current) ==
  LET some_n == Some(<<"n">>)
      now_t == U64Ts(current)
      direct == Obj(<<"command:[ls]", "approvalDecision:allow-once">>)
  IN  { ExecLine(some_n, now_t, Some(SignedBy(k, some_n, now_t, Some(rj))), Some(rj)) :
          k \in Secrets, rj \in EnvRequestJsons \cup {direct} }

\* ------------------------------------------------------------------ actions
\* handle_socket_connection: lines.next_line() of an idle connection.
CanRead(c) == pc[c] = "idle" /\ lines < MaxLines

Read(c, line) ==
  /\ CanRead(c)
  /\ lines' = lines + 1

\* handle_socket_connection: what this step read from connection c (lines')
\* and wrote to it (out'): `writer.write_all(out.as_bytes())` once per response.
Account(c) ==
  LET wrote == out'.resp # None /\ out'.conn = c
      error == wrote /\ ~Unwrap(out'.resp).ok
  IN  io' = [io EXCEPT ![c] =
               [@ EXCEPT !.read = @ + (lines' - lines),
                         !.written = @ + (IF wrote THEN 1 ELSE 0),
                         !.rejected = @ + (IF error THEN 1 ELSE 0)]]

\* `if trimmed.is_empty() { continue; }`: a line of white space gets no answer.
empty_line(c) ==
  /\ CanRead(c)
  /\ lines' = lines + 1
  /\ io' = [io EXCEPT ![c].read = @ + 1, ![c].blank = @ + 1]
  /\ out' = NoOut
  /\ ret' = NoRet
  /\ UNCHANGED <<token, now, pending_approvals, pc, cur, chan, uuids, decided>>
  /\ UNCHANGED <<gvars, unit_vars>>

\* `while let Ok(Some(line)) = lines.next_line().await`: a line that is not
\* valid UTF-8 makes next_line return Err, the loop ends and the stream is
\* dropped without a response.
next_line_err(c) ==
  /\ CanRead(c)
  /\ lines' = lines + 1
  /\ pc' = [pc EXCEPT ![c] = "closed"]
  /\ io' = [io EXCEPT ![c].read = @ + 1, ![c].bad = @ + 1]
  /\ out' = NoOut
  /\ ret' = NoRet
  /\ UNCHANGED <<token, now, pending_approvals, cur, chan, uuids, decided>>
  /\ UNCHANGED <<gvars, unit_vars>>

Owned(c) == {i \in 1..Len(pending_approvals) : pending_approvals[i].tx = c}

\* The key a digest was computed with (of the ideal MAC, for the observer).
SignerOf(hmac) == IF present(hmac) THEN Some(Unwrap(hmac)[1]) ELSE None

\* approvals.push(pending); app.emit("approval-pending", &preview);
\* then the handler blocks in rx.recv_timeout(APPROVAL_TIMEOUT_MS).
Register(c, line, kind, auth, request, preview) ==
  /\ pending_approvals' = Append(pending_approvals,
        [id |-> preview.id, preview |-> preview,
         expires_at_ms |-> preview.expires_at_ms, tx |-> c])
  /\ chan' = [chan EXCEPT ![c] = None]
  /\ cur' = [cur EXCEPT ![c] =
        [NoCur EXCEPT !.kind = kind, !.line = Some(line), !.at = now,
                      !.request = Some(request), !.id = preview.id,
                      !.auth = auth, !.deadline = now + APPROVAL_TIMEOUT_MS,
                      !.events = <<[name |-> "approval-pending", payload |-> preview]>>]]
  /\ pc' = [pc EXCEPT ![c] = "recv"]
  /\ out' = NoOut

\* process_socket_line -> handle_exec_message, up to the first suspension:
\* a rejection, the direct run, or the registration of the approval.
handle_exec_message(c, line) ==
  /\ Read(c, line)
  /\ dispatch(line) = "exec"
  /\ LET envelope == parse_exec_envelope(line)
         verdict == exec_validation(envelope, exec_hmac_key, now)
         request == parse_exec_host_request(Unwrap(envelope.request_json))
         auth == SignerOf(envelope.hmac)
     IN  IF verdict # "ok"
         THEN /\ out' = Answered(c, line, "exec", auth, make_error_response(verdict))
              /\ UNCHANGED <<pending_approvals, pc, cur, chan, uuids>>
         ELSE IF runs_directly(request)
         THEN /\ cur' = [cur EXCEPT ![c] =
                   [NoCur EXCEPT !.kind = "exec", !.direct = TRUE, !.line = Some(line),
                                 !.at = now, !.auth = auth, !.request = Some(request)]]
              /\ pc' = [pc EXCEPT ![c] = "run"]
              /\ out' = NoOut
              /\ UNCHANGED <<pending_approvals, chan, uuids>>
         ELSE /\ uuids' = uuids + 1
              /\ \E keys \in key_orders(request.env) :
                   Register(c, line, "exec", auth, request,
                            exec_preview(uuid_v4(uuids + 1), request, keys,
                                         now + APPROVAL_TIMEOUT_MS))
  /\ ret' = NoRet
  /\ UNCHANGED <<token, now, decided>>
  /\ Account(c)
  /\ UNCHANGED <<gvars, unit_vars>>

\* process_socket_line -> handle_approval_request, up to the first suspension.
handle_approval_request(c, line) ==
  /\ Read(c, line)
  /\ dispatch(line) = "request"
  /\ LET envelope == parse_approval_envelope(line)
         fresh == ~IsSome(envelope.id)
         req_id == IF fresh THEN uuid_v4(uuids + 1) ELSE Unwrap(envelope.id)
         value == IF IsSome(envelope.request) THEN Unwrap(envelope.request) ELSE NullValue
     IN  IF ~approval_token_ok(envelope, approval_shared_token)
         THEN /\ out' = Answered(c, line, "request", envelope.token,
                                 make_error_response("auth-failed"))
              /\ UNCHANGED <<pending_approvals, pc, cur, chan, uuids>>
         ELSE /\ uuids' = IF fresh THEN uuids + 1 ELSE uuids
              /\ Register(c, line, "request", envelope.token, value,
                          remote_preview(req_id, value, now + APPROVAL_TIMEOUT_MS))
  /\ ret' = NoRet
  /\ UNCHANGED <<token, now, decided>>
  /\ Account(c)
  /\ UNCHANGED <<gvars, unit_vars>>

\* A variant that gives up the connection after an unrecognized line.
unknown_type_closes(c, line) ==
  /\ Read(c, line)
  /\ dispatch(line) = "unknown-type"
  /\ out' = Answered(c, line, "none", None, make_error_response("unknown-type"))
  /\ ret' = NoRet
  /\ pc' = [pc EXCEPT ![c] = "closed"]
  /\ UNCHANGED <<token, now, pending_approvals, cur, chan, uuids, decided>>
  /\ Account(c)
  /\ UNCHANGED <<gvars, unit_vars>>

\* process_socket_line: neither envelope fits.
unknown_type(c, line) ==
  /\ Read(c, line)
  /\ dispatch(line) = "unknown-type"
  /\ out' = Answered(c, line, "none", None, make_error_response("unknown-type"))
  /\ ret' = NoRet
  /\ UNCHANGED <<token, now, pending_approvals, pc, cur, chan, uuids, decided>>
  /\ Account(c)
  /\ UNCHANGED <<gvars, unit_vars>>

\* rx.recv_timeout returns Ok(d): a decision is in the buffer.
recv_ok(c) ==
  /\ pc[c] = "recv"
  /\ IsSome(chan[c])
  /\ cur' = [cur EXCEPT ![c].decision = Unwrap(chan[c]), ![c].how = "decided"]
  /\ chan' = [chan EXCEPT ![c] = None]
  /\ pc' = [pc EXCEPT ![c] = "retain"]
  /\ out' = NoOut
  /\ ret' = NoRet
  /\ UNCHANGED <<token, now, pending_approvals, uuids, lines, decided>>
  /\ Account(c)
  /\ UNCHANGED <<gvars, unit_vars>>

\* A variant that lets the request through when no decision came.
timeout_decision_allow == "allow-once"

\* `Err(_) => "deny".to_string()`
timeout_decision == "deny"

\* rx.recv_timeout returns Err(Timeout): the buffer is empty at the deadline.
recv_timed_out(c) ==
  /\ pc[c] = "recv"
  /\ chan[c] = None
  /\ now >= cur[c].deadline
  /\ cur' = [cur EXCEPT ![c].decision = timeout_decision, ![c].how = "timeout"]
  /\ pc' = [pc EXCEPT ![c] = "retain"]
  /\ out' = NoOut
  /\ ret' = NoRet
  /\ UNCHANGED <<token, now, pending_approvals, chan, uuids, lines, decided>>
  /\ Account(c)
  /\ UNCHANGED <<gvars, unit_vars>>

\* rx.recv_timeout returns Err(Disconnected): the buffer is empty and the only
\* SyncSender, the one in the PendingApproval, was dropped with its entry.
recv_disconnected(c) ==
  /\ pc[c] = "recv"
  /\ chan[c] = None
  /\ Owned(c) = {}
  /\ cur' = [cur EXCEPT ![c].decision = timeout_decision, ![c].how = "disconnected"]
  /\ pc' = [pc EXCEPT ![c] = "retain"]
  /\ out' = NoOut
  /\ ret' = NoRet
  /\ UNCHANGED <<token, now, pending_approvals, chan, uuids, lines, decided>>
  /\ Account(c)
  /\ UNCHANGED <<gvars, unit_vars>>

\* A variant that keeps every entry.
retain_all(approvals, id) == approvals

\* approvals.retain(|a| a.id != id)
retain(approvals, id) == SelectSeq(approvals, LAMBDA a : a.id # id)

\* `if decision == "deny"`
exec_denied(decision) == decision = "deny"

\* What a finished request leaves behind for the observer.
Summary(c, locals, response, spawned) ==
  [conn |-> c, resp |-> Some(response), line |-> None, kind |-> locals.kind,
   via |-> IF locals.direct THEN "direct" ELSE "approval",
   auth |-> locals.auth, decision |-> locals.decision, how |-> locals.how,
   accepted |-> locals.accepted, spawned |-> spawned, removed |-> locals.removed,
   events |-> [i \in 1..Len(locals.events) |-> locals.events[i].name]]

\* After recv_timeout: remove the entry under the lock, emit
\* "approval-resolved", then answer (remote request, denied exec) or go on to
\* run the command.
resolve(c) ==
  /\ pc[c] = "retain"
  /\ LET id == cur[c].id
         kept == retain(pending_approvals, id)
         gone(d) == Cardinality({i \in Owned(d) : pending_approvals[i].tx
                                   \notin {kept[j].tx : j \in 1..Len(kept)}})
         event == [name |-> "approval-resolved",
                   payload |-> [id |-> id, decision |-> cur[c].decision]]
         mine == [cur[c] EXCEPT !.removed = @ + gone(c), !.events = Append(@, event)]
         others == [d \in Conns |-> [cur[d] EXCEPT !.removed = @ + gone(d)]]
     IN  /\ pending_approvals' = kept
         /\ IF cur[c].kind = "request"
            THEN /\ out' = Summary(c, mine, decision_frame(cur[c].decision), FALSE)
                 /\ cur' = [others EXCEPT ![c] = NoCur]
                 /\ pc' = [pc EXCEPT ![c] = "idle"]
            ELSE IF exec_denied(cur[c].decision)
            THEN /\ out' = Summary(c, mine, make_error_response("denied"), FALSE)
                 /\ cur' = [others EXCEPT ![c] = NoCur]
                 /\ pc' = [pc EXCEPT ![c] = "idle"]
            ELSE /\ cur' = [others EXCEPT ![c] = mine]
                 /\ pc' = [pc EXCEPT ![c] = "run"]
                 /\ out' = NoOut
  /\ ret' = NoRet
  /\ UNCHANGED <<token, now, chan, uuids, lines, decided>>
  /\ Account(c)
  /\ UNCHANGED <<gvars, unit_vars>>

\* What the spawned child does, as far as the response shows it.
ChildOutcomes == {"spawn error", "exit 0", "timed out"}

exec_result(outcome) ==
  [exit_code |-> IF outcome = "exit 0" THEN Some(0) ELSE None,
   timed_out |-> outcome = "timed out",
   success |-> outcome = "exit 0",
   error |-> CASE outcome = "exit 0" -> None
               [] outcome = "timed out" -> Some("command timed out")
               [] OTHER -> Some(outcome)]

\* run_exec_command and the final make_success_response(result).
run_exec_command(c) ==
  /\ pc[c] = "run"
  /\ LET argv == Unwrap(cur[c].request).command
     IN  IF argv = <<>>
         THEN out' = Summary(c, cur[c], make_success_response(exec_result("empty command")),
                             FALSE)
         ELSE \E outcome \in ChildOutcomes :
                out' = Summary(c, cur[c], make_success_response(exec_result(outcome)),
                               outcome # "spawn error")
  /\ cur' = [cur EXCEPT ![c] = NoCur]
  /\ pc' = [pc EXCEPT ![c] = "idle"]
  /\ ret' = NoRet
  /\ UNCHANGED <<token, now, pending_approvals, chan, uuids, lines, decided>>
  /\ Account(c)
  /\ UNCHANGED <<gvars, unit_vars>>

Decisions == {"deny", "allow-once", "allow-always"}

\* Ids the UI may name: a pending one, one it decided before, or an unknown one.
UiIds ==
  {pending_approvals[i].id : i \in 1..Len(pending_approvals)} \cup decided.ids \cup {<<"zz">>}

\* approvals.iter().find(|a| a.id == id)
find(approvals, id) ==
  IF \E i \in 1..Len(approvals) : approvals[i].id = id
  THEN Some(CHOOSE i \in 1..Len(approvals) :
              /\ approvals[i].id = id
              /\ \A j \in 1..(i - 1) : approvals[j].id # id)
  ELSE None

\* SyncSender::try_send on the channel of connection c's handler.
try_send(c) ==
  IF pc[c] = "idle" THEN "disconnected"
  ELSE IF IsSome(chan[c]) THEN "full"
  ELSE "ok"

\* The tauri command decide_approval(id, decision).
decide_approval(id, decision) ==
  /\ decided.calls < MaxDecide
  /\ LET found == find(pending_approvals, id)
         to == pending_approvals[Unwrap(found)].tx
         result == IF decision \notin Decisions THEN "invalid decision"
                   ELSE IF ~IsSome(found) THEN "no pending approval"
                   ELSE try_send(to)
     IN  /\ decided' = [calls |-> decided.calls + 1,
                        ids |-> IF result = "ok" THEN decided.ids \cup {id} ELSE decided.ids]
         /\ ret' = [result |-> result, to |-> IF result = "ok" THEN to ELSE 0,
                    repeat |-> id \in decided.ids]
         /\ IF result = "ok"
            THEN /\ chan' = [chan EXCEPT ![to] = Some(decision)]
                 /\ cur' = [cur EXCEPT ![to].accepted = Append(@, decision)]
            ELSE UNCHANGED <<chan, cur>>
  /\ out' = NoOut
  /\ UNCHANGED <<token, now, pending_approvals, pc, uuids, lines, io>>
  /\ UNCHANGED <<gvars, unit_vars>>

\* Time passes while a handler is blocked in recv_timeout, until the earliest
\* deadline: the handler wakes up at its deadline.
Deadlines == {cur[c].deadline : c \in {d \in Conns : pc[d] = "recv"}}

Tick ==
  /\ Deadlines # {}
  /\ \A d \in Deadlines : d > now
  /\ now' = CHOOSE d \in Deadlines : \A e \in Deadlines : d <= e
  /\ out' = NoOut
  /\ ret' = NoRet
  /\ UNCHANGED <<token, pending_approvals, pc, cur, chan, uuids, lines, decided, io>>
  /\ UNCHANGED <<gvars, unit_vars>>

Next ==
  \/ \E c \in Conns :
       CanRead(c) /\ \E line \in MainExecLines(now) : handle_exec_message(c, line)
  \/ \E c \in Conns :
       CanRead(c) /\ \E line \in RemoteLines : handle_approval_request(c, line)
  \/ \E c \in Conns :
       CanRead(c) /\ \E line \in OtherLines : unknown_type(c, line)
  \/ \E c \in Conns : empty_line(c)
  \/ \E c \in Conns : next_line_err(c)
  \/ \E c \in Conns : recv_ok(c)
  \/ \E c \in Conns : recv_timed_out(c)
  \/ \E c \in Conns : recv_disconnected(c)
  \/ \E c \in Conns : resolve(c)
  \/ \E c \in Conns : run_exec_command(c)
  \/ \E id \in UiIds : \E decision \in Decisions \cup {"maybe"} : decide_approval(id, decision)
  \/ Tick

Spec == Init /\ [][Next]_vars

\* One more line is read, and it is any exec line at all: every combination of
\* missing, empty, stale and wrongly signed fields.
InitValidation ==
  /\ token = generate_token
  /\ now = StartMs
  /\ pending_approvals = <<>>
  /\ pc = [c \in Conns |-> "idle"]
  /\ cur = [c \in Conns |-> NoCur]
  /\ chan = [c \in Conns |-> None]
  /\ uuids = 0
  /\ lines = MaxLines - 1
  /\ decided = [calls |-> 0, ids |-> {}]
  /\ out = NoOut
  /\ ret = NoRet
  /\ io = [c \in Conns |-> NoIo]
  /\ InitGateway
  /\ InitUnits

NextValidation ==
  \/ \E c \in Conns :
       /\ CanRead(c)
       /\ \E n \in Nonces, t \in Timestamps(now), rj \in RequestJsons :
            \E h \in Hmacs(n, t, rj) : handle_exec_message(c, ExecLine(n, t, h, rj))
  \/ \E c \in Conns : recv_ok(c)
  \/ \E c \in Conns : recv_timed_out(c)
  \/ \E c \in Conns : resolve(c)
  \/ \E c \in Conns : run_exec_command(c)
  \/ \E id \in UiIds : \E decision \in Decisions \cup {"maybe"} : decide_approval(id, decision)
  \/ Tick

SpecValidation == InitValidation /\ [][NextValidation]_vars

\* One more line is read, and it is an exec envelope with every field present
\* and a fresh timestamp, whose hmac a holder of some key computed over fields
\* that are or are not the ones the envelope carries, and which reaches the
\* server with or without a bit of the digest changed.
HmacNonces == {<<"n">>, <<"m">>, <<"n", ":">> \o u64_to_string(StartMs)}

HmacRequestJsons ==
  { Obj(<<"command:[ls]">>),
    Obj(<<"command:[ls]", "approvalDecision:allow-once">>),
    u64_to_string(StartMs) \o <<":">> \o Obj(<<"command:[ls]">>) }

SignedFields ==
  [nonce : HmacNonces, ts : {StartMs, StartMs + 1}, request_json : HmacRequestJsons]

\* A digest that differs in a bit from the one computed.
flip_bit(digest) == Append(digest, "bit")

\* The envelope that carries the fields `sent` and the digest of the fields
\* `signed`; what was signed, by whom and what was flipped is noted for the
\* observer, and no part of the envelope.
SignedLine(key, signed, sent, flipped) ==
  LET digest == hmac_sha256_hex(key, hmac_message(signed.nonce, signed.ts, signed.request_json))
  IN  [signed |-> signed, key |-> key, flipped |-> flipped]
        @@ ExecLine(Some(sent.nonce), U64Ts(sent.ts),
                    Some(IF flipped THEN flip_bit(digest) ELSE digest),
                    Some(sent.request_json))

NextHmac ==
  \/ \E c \in Conns :
       /\ CanRead(c)
       /\ \E key \in Secrets, signed \in SignedFields, sent \in SignedFields,
             flipped \in BOOLEAN :
            handle_exec_message(c, SignedLine(key, signed, sent, flipped))
  \/ \E c \in Conns : recv_ok(c)
  \/ \E c \in Conns : recv_timed_out(c)
  \/ \E c \in Conns : resolve(c)
  \/ \E c \in Conns : run_exec_command(c)
  \/ \E id \in UiIds : \E decision \in Decisions \cup {"maybe"} : decide_approval(id, decision)
  \/ Tick

SpecHmac == InitValidation /\ [][NextHmac]_vars

\* ------------------------------------------------------------ gateway frames
\* What read.next() yields: a text frame that parses to a "res" or an "event",
\* a text frame that is not JSON, a ping, a close frame, the end of the
\* stream (None), or a read error.
Frame(kind, id, ok, code, request_id, message) ==
  [kind |-> kind, id |-> id, ok |-> ok, code |-> code, request_id |-> request_id,
   message |-> message]

ResOk(id) == Frame("res", id, TRUE, "", None, None)
ResErr(id, code, request_id, message) == Frame("res", id, FALSE, code, request_id, message)
OtherFrame(kind) == Frame(kind, 0, FALSE, "", None, None)

\* A close frame: CloseCode::Policy with a reason that contains
\* PAIRING_REQUIRED or 1008, or any other close frame.
CloseFrame(code) == Frame("close", 0, FALSE, code, None, None)

\* Frames that neither loop acts on.
PassingFrames == {OtherFrame("event"), OtherFrame("malformed"), OtherFrame("ping"),
                  OtherFrame("error")}

HandshakeFrames(connect_id) ==
  { ResOk(connect_id), ResOk(0),
    ResErr(connect_id, "PAIRING_REQUIRED", Some("abc123"), Some("pairing required")),
    ResErr(connect_id, "1008", Some("abc123"), None),
    ResErr(connect_id, "PAIRING_REQUIRED", None, None),
    ResErr(connect_id, "UNAUTHORIZED", Some("abc123"), Some("bad token")),
    ResErr(connect_id, "", None, None),
    CloseFrame("policy pairing"), CloseFrame("other"), OtherFrame("end") }
    \cup PassingFrames

RpcIds == {rpcs[k].id : k \in Calls} \cup {0}

MainFrames ==
  { ResOk(i) : i \in RpcIds } \cup { ResErr(i, "", None, None) : i \in RpcIds }
    \cup { CloseFrame("other"), OtherFrame("end") } \cup PassingFrames

\* After a read error the stream has ended: the next read.next() is None.
CanReceive(s, f) ==
  IF sessions[s].ended THEN f.kind = "end" ELSE inbound < MaxFrames

Received(s, f) == IF sessions[s].ended THEN inbound ELSE inbound + 1

\* ------------------------------------------------- run_gateway_connection
ErrorStatus(msg) == Status("error", Some(msg), None, None)

Disconnected(s, error) ==
  [NoEmit EXCEPT !.event = "gateway-disconnected", !.session = s, !.error = error]

\* A variant that reports the failure without leaving the disconnected status.
Fail_silently(s, msg) ==
  /\ status' = DefaultStatus
  /\ emitted' = Disconnected(s, Some(msg))
  /\ sessions' = [sessions EXCEPT ![s].pc = "done", ![s].end = "error"]

\* state.set_status(error); app.emit("gateway-disconnected", {error}); return
Fail(s, msg) ==
  /\ status' = ErrorStatus(msg)
  /\ emitted' = Disconnected(s, Some(msg))
  /\ sessions' = [sessions EXCEPT ![s].pc = "done", ![s].end = "error"]

\* state.set_status(pairing); app.emit("gateway-pairing-required", ..); return
Pairing(s, request_id) ==
  /\ status' = Status("pairing", None, request_id, Some(DeviceId))
  /\ emitted' = [NoEmit EXCEPT !.event = "gateway-pairing-required", !.session = s,
                               !.request_id = request_id, !.device_id = Some(DeviceId)]
  /\ sessions' = [sessions EXCEPT ![s].pc = "done", ![s].end = "pairing"]

\* The transport of a session is open from connect_async's Ok to the return.
TransportOpen(s) ==
  sessions[s].pc \in {"open", "handshake", "set_status", "set_tx", "main",
                       "exit_tx", "exit_status", "drain"}

\* The task itself holds rpc_tx until set_tx(Some(rpc_tx)) moves it.
HoldsOwnSender(s) ==
  sessions[s].pc \in {"connecting", "open", "handshake", "set_status", "set_tx"}

\* The live senders of a session's channel: the task's own, the one installed
\* in GatewayState.tx, and the clone of every gateway_rpc call that took one
\* and has not returned.
Senders(s) ==
  (IF HoldsOwnSender(s) THEN 1 ELSE 0)
  + (IF tx = Some(s) THEN 1 ELSE 0)
  + Cardinality({k \in Calls : rpcs[k].pc \in {"cloned", "waiting"} /\ rpcs[k].session = s})

\* tokio::time::timeout(15 s, connect_async(url))
connect_async(s, result) ==
  /\ sessions[s].pc = "connecting"
  /\ CASE result = "ok" ->
            /\ sessions' = [sessions EXCEPT ![s].pc = "open"]
            /\ emitted' = NoEmit
            /\ UNCHANGED status
       [] result = "failed" -> Fail(s, "WS connect failed")
       [] result = "timed out" -> Fail(s, "Connection timed out")
  /\ UNCHANGED <<now, tx, seq, rpcs, disconnects, inbound>>
  /\ UNCHANGED <<exec_vars, unit_vars>>

\* The wait for connect.challenge, next_id() and the send of the connect request.
send_connect(s, sent) ==
  /\ sessions[s].pc = "open"
  /\ seq' = seq + 1
  /\ IF sent
     THEN /\ sessions' = [sessions EXCEPT ![s].pc = "handshake", ![s].connect_id = seq + 1,
                                          ![s].sent = 1, ![s].sent_at = now,
                                          ![s].read_deadline = now + HANDSHAKE_READ_TIMEOUT_MS]
          /\ emitted' = NoEmit
          /\ UNCHANGED status
     ELSE Fail(s, "Failed to send connect")
  /\ UNCHANGED <<now, tx, rpcs, disconnects, inbound>>
  /\ UNCHANGED <<exec_vars, unit_vars>>

\* A variant that knows the pairing rejection by its name only.
is_pairing_code_by_name(code) == code = "PAIRING_REQUIRED"

is_pairing_code(code) == code = "PAIRING_REQUIRED" \/ code = "1008"

\* One turn of the `let hello_ok = loop { .. }` that got a frame in time.
handshake_frame(s, f) ==
  /\ sessions[s].pc = "handshake"
  /\ CanReceive(s, f)
  /\ inbound' = Received(s, f)
  /\ IF f.kind = "res" /\ f.id = sessions[s].connect_id
     THEN IF f.ok
          THEN /\ sessions' = [sessions EXCEPT ![s].pc = "set_status"]
               /\ emitted' = NoEmit
               /\ UNCHANGED status
          ELSE IF is_pairing_code(f.code)
          THEN Pairing(s, f.request_id)
          ELSE Fail(s, IF IsSome(f.message) THEN Unwrap(f.message) ELSE "handshake rejected")
     ELSE IF f.kind = "close"
     THEN IF f.code = "policy pairing"
          THEN Pairing(s, None)
          ELSE Fail(s, "Connection closed during handshake")
     ELSE IF f.kind = "end"
     THEN Fail(s, "Connection closed during handshake")
     ELSE /\ sessions' = [sessions EXCEPT
                            ![s].read_deadline = now + HANDSHAKE_READ_TIMEOUT_MS,
                            ![s].ended = f.kind = "error"]
          /\ emitted' = NoEmit
          /\ UNCHANGED status
  /\ UNCHANGED <<now, tx, seq, rpcs, disconnects>>
  /\ UNCHANGED <<exec_vars, unit_vars>>

\* `Err(_)` of tokio::time::timeout(15 s, read.next())
handshake_timeout(s) ==
  /\ sessions[s].pc = "handshake"
  /\ now >= sessions[s].read_deadline
  /\ Fail(s, "Handshake timed out")
  /\ UNCHANGED <<now, tx, seq, rpcs, disconnects, inbound>>
  /\ UNCHANGED <<exec_vars, unit_vars>>

\* state.set_status(connected)
set_status_connected(s) ==
  /\ sessions[s].pc = "set_status"
  /\ status' = Status("connected", None, None, Some(DeviceId))
  /\ sessions' = [sessions EXCEPT ![s].pc = "set_tx"]
  /\ emitted' = NoEmit
  /\ UNCHANGED <<now, tx, seq, rpcs, disconnects, inbound>>
  /\ UNCHANGED <<exec_vars, unit_vars>>

\* state.set_tx(Some(rpc_tx)); app.emit("gateway-connected", &hello_ok)
set_tx_installed(s) ==
  /\ sessions[s].pc = "set_tx"
  /\ tx' = Some(s)
  /\ sessions' = [sessions EXCEPT ![s].pc = "main"]
  /\ emitted' = [NoEmit EXCEPT !.event = "gateway-connected", !.session = s]
  /\ UNCHANGED <<now, status, seq, rpcs, disconnects, inbound>>
  /\ UNCHANGED <<exec_vars, unit_vars>>

\* reply.send(result): it reaches the call that waits for this id, and is
\* lost when that call has returned.
Resolved(calls, req, result) ==
  IF calls[req.call].pc = "waiting" /\ calls[req.call].id = req.id
  THEN [calls EXCEPT ![req.call].pc = "done", ![req.call].result = result]
  ELSE calls

\* Main loop, `rpc_req = rpc_rx.recv()` with Some(req).
main_recv_rpc(s, sent) ==
  /\ sessions[s].pc = "main"
  /\ sessions[s].queue # <<>>
  /\ LET req == Head(sessions[s].queue)
     IN  IF sent
         THEN /\ sessions' = [sessions EXCEPT ![s].queue = Tail(@),
                                              ![s].pending = @ \cup {req},
                                              ![s].sent = @ + 1]
              /\ rpcs' = [rpcs EXCEPT ![req.call].framed = TRUE]
         ELSE /\ sessions' = [sessions EXCEPT ![s].queue = Tail(@)]
              /\ rpcs' = Resolved(rpcs, req, "send failed")
  /\ emitted' = NoEmit
  /\ UNCHANGED <<now, status, tx, seq, disconnects, inbound>>
  /\ UNCHANGED <<exec_vars, unit_vars>>

\* Main loop, `rpc_req = rpc_rx.recv()` with None: every sender is gone.
main_channel_closed(s) ==
  /\ sessions[s].pc = "main"
  /\ sessions[s].queue = <<>>
  /\ Senders(s) = 0
  /\ sessions' = [sessions EXCEPT ![s].pc = "exit_tx", ![s].end = "sender dropped"]
  /\ emitted' = NoEmit
  /\ UNCHANGED <<now, status, tx, seq, rpcs, disconnects, inbound>>
  /\ UNCHANGED <<exec_vars, unit_vars>>

\* A variant whose "res" frame empties the whole pending map.
main_frame_removes_all(s, f) ==
  /\ sessions[s].pc = "main"
  /\ CanReceive(s, f)
  /\ inbound' = Received(s, f)
  /\ LET matching == {req \in sessions[s].pending : req.id = f.id}
     IN  IF f.kind = "res"
         THEN /\ sessions' = [sessions EXCEPT ![s].pending = IF matching = {} THEN @ ELSE {}]
              /\ rpcs' = IF matching = {} THEN rpcs
                         ELSE Resolved(rpcs, CHOOSE req \in matching : TRUE,
                                       IF f.ok THEN "ok" ELSE "RPC error")
              /\ emitted' = NoEmit
         ELSE IF f.kind \in {"close", "end"}
         THEN /\ sessions' = [sessions EXCEPT ![s].pc = "exit_tx", ![s].end = "closed"]
              /\ emitted' = NoEmit
              /\ UNCHANGED rpcs
         ELSE /\ sessions' = [sessions EXCEPT
                                ![s].sent = IF f.kind = "ping" THEN @ + 1 ELSE @,
                                ![s].ended = f.kind = "error"]
              /\ emitted' = IF f.kind = "event"
                            THEN [NoEmit EXCEPT !.event = "gateway-event", !.session = s]
                            ELSE NoEmit
              /\ UNCHANGED rpcs
  /\ UNCHANGED <<now, status, tx, seq, disconnects>>
  /\ UNCHANGED <<exec_vars, unit_vars>>

\* Main loop, `msg = read.next()`.
main_frame(s, f) ==
  /\ sessions[s].pc = "main"
  /\ CanReceive(s, f)
  /\ inbound' = Received(s, f)
  /\ LET matching == {req \in sessions[s].pending : req.id = f.id}
     IN  IF f.kind = "res"
         THEN /\ sessions' = [sessions EXCEPT ![s].pending = @ \ matching]
              /\ rpcs' = IF matching = {} THEN rpcs
                         ELSE Resolved(rpcs, CHOOSE req \in matching : TRUE,
                                       IF f.ok THEN "ok" ELSE "RPC error")
              /\ emitted' = NoEmit
         ELSE IF f.kind \in {"close", "end"}
         THEN /\ sessions' = [sessions EXCEPT ![s].pc = "exit_tx", ![s].end = "closed"]
              /\ emitted' = NoEmit
              /\ UNCHANGED rpcs
         ELSE /\ sessions' = [sessions EXCEPT
                                ![s].sent = IF f.kind = "ping" THEN @ + 1 ELSE @,
                                ![s].ended = f.kind = "error"]
              /\ emitted' = IF f.kind = "event"
                            THEN [NoEmit EXCEPT !.event = "gateway-event", !.session = s]
                            ELSE NoEmit
              /\ UNCHANGED rpcs
  /\ UNCHANGED <<now, status, tx, seq, disconnects>>
  /\ UNCHANGED <<exec_vars, unit_vars>>

\* After the loop: state.set_tx(None)
exit_set_tx(s) ==
  /\ sessions[s].pc = "exit_tx"
  /\ tx' = None
  /\ sessions' = [sessions EXCEPT ![s].pc = "exit_status"]
  /\ emitted' = NoEmit
  /\ UNCHANGED <<now, status, seq, rpcs, disconnects, inbound>>
  /\ UNCHANGED <<exec_vars, unit_vars>>

\* After the loop: state.set_status(disconnected)
exit_set_status(s) ==
  /\ sessions[s].pc = "exit_status"
  /\ status' = DefaultStatus
  /\ sessions' = [sessions EXCEPT ![s].pc = "drain"]
  /\ emitted' = NoEmit
  /\ UNCHANGED <<now, tx, seq, rpcs, disconnects, inbound>>
  /\ UNCHANGED <<exec_vars, unit_vars>>

\* A variant that returns without answering the pending replies.
drain_without_reply(s) ==
  /\ sessions[s].pc = "drain"
  /\ sessions' = [sessions EXCEPT ![s].pc = "done", ![s].pending = {}, ![s].queue = <<>>]
  /\ emitted' = Disconnected(s, None)
  /\ UNCHANGED <<now, status, tx, seq, rpcs, disconnects, inbound>>
  /\ UNCHANGED <<exec_vars, unit_vars>>

Queued(s) == {sessions[s].queue[i] : i \in 1..Len(sessions[s].queue)}

\* After the loop: every pending reply gets Err("Connection closed"); the
\* task returns and drops rpc_rx with the requests still queued in it, whose
\* reply senders go with them.
drain(s) ==
  /\ sessions[s].pc = "drain"
  /\ rpcs' = [k \in Calls |->
               IF rpcs[k].pc = "waiting" /\ [id |-> rpcs[k].id, call |-> k] \in sessions[s].pending
               THEN [rpcs[k] EXCEPT !.pc = "done", !.result = "Connection closed"]
               ELSE IF rpcs[k].pc = "waiting" /\ [id |-> rpcs[k].id, call |-> k] \in Queued(s)
               THEN [rpcs[k] EXCEPT !.pc = "done", !.result = "Reply channel closed"]
               ELSE rpcs[k]]
  /\ sessions' = [sessions EXCEPT ![s].pc = "done", ![s].pending = {}, ![s].queue = <<>>]
  /\ emitted' = Disconnected(s, None)
  /\ UNCHANGED <<now, status, tx, seq, disconnects, inbound>>
  /\ UNCHANGED <<exec_vars, unit_vars>>

\* ------------------------------------------------------------ tauri commands
\* gateway_connect: set_status(connecting), then spawn run_gateway_connection.
gateway_connect ==
  /\ \E s \in Sessions : sessions[s].pc = "none"
  /\ LET s == CHOOSE t \in Sessions :
                sessions[t].pc = "none" /\ \A u \in Sessions : sessions[u].pc = "none" => t <= u
     IN  sessions' = [sessions EXCEPT ![s].pc = "connecting", ![s].by = "gateway_connect"]
  /\ status' = Status("connecting", None, None, None)
  /\ emitted' = NoEmit
  /\ UNCHANGED <<now, tx, seq, rpcs, disconnects, inbound>>
  /\ UNCHANGED <<exec_vars, unit_vars>>

\* gateway_disconnect: state.set_tx(None)
gateway_disconnect_tx ==
  /\ disconnects.pc = "idle"
  /\ disconnects.calls < MaxDisconnects
  /\ tx' = None
  /\ disconnects' = [calls |-> disconnects.calls + 1, pc |-> "set_status"]
  /\ emitted' = NoEmit
  /\ UNCHANGED <<now, status, seq, sessions, rpcs, inbound>>
  /\ UNCHANGED <<exec_vars, unit_vars>>

\* gateway_disconnect: state.set_status(GatewayConnectionStatus::default())
gateway_disconnect_status ==
  /\ disconnects.pc = "set_status"
  /\ status' = DefaultStatus
  /\ disconnects' = [disconnects EXCEPT !.pc = "idle"]
  /\ emitted' = NoEmit
  /\ UNCHANGED <<now, tx, seq, sessions, rpcs, inbound>>
  /\ UNCHANGED <<exec_vars, unit_vars>>

\* gateway_rpc: `let tx = { state.tx.lock().unwrap().clone() }` and
\* tx.ok_or_else(|| "Gateway not connected")?
gateway_rpc_clone(k) ==
  /\ rpcs[k].pc = "idle"
  /\ rpcs' = [rpcs EXCEPT ![k] =
        IF IsSome(tx)
        THEN [@ EXCEPT !.pc = "cloned", !.session = Unwrap(tx), !.seen = status.state]
        ELSE [@ EXCEPT !.pc = "done", !.seen = status.state,
                       !.result = "Gateway not connected"]]
  /\ emitted' = NoEmit
  /\ UNCHANGED <<now, status, tx, seq, sessions, disconnects, inbound>>
  /\ UNCHANGED <<exec_vars, unit_vars>>

\* gateway_rpc: next_id(), tx.send(req), which fails once rpc_rx is dropped.
gateway_rpc_send(k) ==
  /\ rpcs[k].pc = "cloned"
  /\ seq' = seq + 1
  /\ LET s == rpcs[k].session
     IN  IF sessions[s].pc # "done"
         THEN /\ sessions' = [sessions EXCEPT
                                ![s].queue = Append(@, [id |-> seq + 1, call |-> k])]
              /\ rpcs' = [rpcs EXCEPT ![k].pc = "waiting", ![k].id = seq + 1,
                                      ![k].deadline = now + RPC_TIMEOUT_MS]
         ELSE /\ rpcs' = [rpcs EXCEPT ![k].pc = "done", ![k].id = seq + 1,
                                      ![k].result = "Gateway connection dropped"]
              /\ UNCHANGED sessions
  /\ emitted' = NoEmit
  /\ UNCHANGED <<now, status, tx, disconnects, inbound>>
  /\ UNCHANGED <<exec_vars, unit_vars>>

\* gateway_rpc: tokio::time::timeout(30 s, reply_rx) elapsed.
gateway_rpc_timeout(k) ==
  /\ rpcs[k].pc = "waiting"
  /\ now >= rpcs[k].deadline
  /\ rpcs' = [rpcs EXCEPT ![k].pc = "done", ![k].result = "RPC timed out"]
  /\ emitted' = NoEmit
  /\ UNCHANGED <<now, status, tx, seq, sessions, disconnects, inbound>>
  /\ UNCHANGED <<exec_vars, unit_vars>>

\* The deadlines of the timers that run: the handshake's read and the calls'
\* wait for a reply.
GatewayDeadlines ==
  {sessions[s].read_deadline : s \in {t \in Sessions : sessions[t].pc = "handshake"}}
    \cup {rpcs[k].deadline : k \in {j \in Calls : rpcs[j].pc = "waiting"}}

\* Time passes, by TickMs at most and never past a deadline somebody waits for.
gateway_tick ==
  /\ GatewayDeadlines # {}
  /\ \A d \in GatewayDeadlines : d > now
  /\ LET first == CHOOSE d \in GatewayDeadlines : \A e \in GatewayDeadlines : d <= e
     IN  now' = IF now + TickMs < first THEN now + TickMs ELSE first
  /\ emitted' = NoEmit
  /\ UNCHANGED <<status, tx, seq, sessions, rpcs, disconnects, inbound>>
  /\ UNCHANGED <<exec_vars, unit_vars>>

NextGateway ==
  \/ gateway_connect
  \/ \E s \in Sessions : \E result \in {"ok", "failed", "timed out"} : connect_async(s, result)
  \/ \E s \in Sessions : \E sent \in BOOLEAN : send_connect(s, sent)
  \/ \E s \in Sessions :
       /\ sessions[s].pc = "handshake"
       /\ \E f \in HandshakeFrames(sessions[s].connect_id) : handshake_frame(s, f)
  \/ \E s \in Sessions : handshake_timeout(s)
  \/ \E s \in Sessions : set_status_connected(s)
  \/ \E s \in Sessions : set_tx_installed(s)
  \/ \E s \in Sessions : \E sent \in BOOLEAN : main_recv_rpc(s, sent)
  \/ \E s \in Sessions : main_channel_closed(s)
  \/ \E s \in Sessions : sessions[s].pc = "main" /\ \E f \in MainFrames : main_frame(s, f)
  \/ \E s \in Sessions : exit_set_tx(s)
  \/ \E s \in Sessions : exit_set_status(s)
  \/ \E s \in Sessions : drain(s)
  \/ \E k \in Calls : gateway_rpc_clone(k)
  \/ \E k \in Calls : gateway_rpc_send(k)
  \/ \E k \in Calls : gateway_rpc_timeout(k)
  \/ gateway_disconnect_tx
  \/ gateway_disconnect_status
  \/ gateway_tick

SpecGateway == Init /\ [][NextGateway]_vars

\* ------------------------------------------------------ the connect request
\* serde_json::Map: a function from the keys present to their values.
EmptyMap == <<>>

Insert(map, key, value) ==
  [k \in DOMAIN map \cup {key} |-> IF k = key THEN value ELSE map[k]]

Get(map, key) == IF key \in DOMAIN map THEN Some(map[key]) ELSE None

is_empty(map) == DOMAIN map = {}

Urls == {"ws://a:18789", "wss://b:443"}

\* token and password as gateway_connect and the configuration hand them over.
Tokens == {None, Some(""), Some("tok")}
Passwords == {None, Some("pw")}

\* identity.gateway_tokens: a device token stored for some of the urls.
GatewayTokens ==
  {EmptyMap} \cup { [u \in {url} |-> [token |-> "device-tok"]] : url \in Urls }
    \cup { [u \in Urls |-> [token |-> "device-tok"]] }

\* identity.private_key_bytes as the identity file has it: the base64url of
\* 32 bytes, of 31 bytes, of no byte, or text that is not base64url.
PrivateKeys == {"b64url:32", "b64url:31", "", "not base64!"}

\* URL_SAFE_NO_PAD.decode: the number of bytes decoded, or Err.
URL_SAFE_NO_PAD_decode(text) ==
  CASE text = "b64url:32" -> Some(32)
    [] text = "b64url:31" -> Some(31)
    [] text = "" -> Some(0)
    [] OTHER -> None

Identities ==
  [device_id : {DeviceId}, public_key_bytes : {"b64url:pub"},
   private_key_bytes : PrivateKeys, gateway_tokens : GatewayTokens]

\* What the 5 s wait for connect.challenge ends with: a text frame (an event
\* connect.challenge with or without a string nonce, another event, a
\* response, text that is not JSON), another kind of message, the end of the
\* stream, a read error, or the timeout.
ChallengeWaits ==
  { [kind |-> "text", type |-> "event", event |-> "connect.challenge", nonce |-> Some("n1")],
    [kind |-> "text", type |-> "event", event |-> "connect.challenge", nonce |-> Some("")],
    [kind |-> "text", type |-> "event", event |-> "connect.challenge", nonce |-> None],
    [kind |-> "text", type |-> "event", event |-> "tick", nonce |-> Some("n1")],
    [kind |-> "text", type |-> "res", event |-> "", nonce |-> None],
    [kind |-> "text", type |-> "not json", event |-> "", nonce |-> None],
    [kind |-> "binary", type |-> "", event |-> "", nonce |-> None],
    [kind |-> "end", type |-> "", event |-> "", nonce |-> None],
    [kind |-> "error", type |-> "", event |-> "", nonce |-> None],
    [kind |-> "timeout", type |-> "", event |-> "", nonce |-> None] }

\* `let mut nonce` after the match on the first frame.
challenge_nonce(first) ==
  IF first.kind = "text" /\ first.type = "event" /\ first.event = "connect.challenge"
  THEN first.nonce
  ELSE None

\* A variant that signs with whatever the stored key material decodes to.
device_obj_any_seed(nonce, identity, tok, signed_at_ms) ==
  IF IsSome(nonce) /\ IsSome(URL_SAFE_NO_PAD_decode(identity.private_key_bytes))
  THEN Some([id |-> identity.device_id, publicKey |-> identity.public_key_bytes,
             signature |-> <<"sig", identity.private_key_bytes, identity.device_id,
                             signed_at_ms, IF IsSome(tok) THEN Unwrap(tok) ELSE "",
                             Unwrap(nonce)>>,
             signedAt |-> signed_at_ms, nonce |-> Unwrap(nonce)])
  ELSE None

\* `let device_obj: Option<Value>`: the signature is over the v3 payload
\* (device id, the fixed client, mode, role and scopes, signedAt, the token or
\* "", the nonce, the platform) with the key made from the seed.
device_obj(nonce, identity, tok, signed_at_ms) ==
  IF IsSome(nonce)
  THEN LET seed_bytes == URL_SAFE_NO_PAD_decode(identity.private_key_bytes)
       IN  IF IsSome(seed_bytes) /\ Unwrap(seed_bytes) = 32
           THEN Some([id |-> identity.device_id, publicKey |-> identity.public_key_bytes,
                      signature |-> <<"sig", identity.private_key_bytes, identity.device_id,
                                      signed_at_ms, IF IsSome(tok) THEN Unwrap(tok) ELSE "",
                                      Unwrap(nonce)>>,
                      signedAt |-> signed_at_ms, nonce |-> Unwrap(nonce)])
           ELSE None
  ELSE None

\* `let mut auth_obj`: token, password, and the stored device token of this
\* url when neither was given.
auth_obj(tok, password, identity, url) ==
  LET a == IF IsSome(tok) THEN Insert(EmptyMap, "token", Unwrap(tok)) ELSE EmptyMap
      b == IF IsSome(password) THEN Insert(a, "password", Unwrap(password)) ELSE a
      stored == Get(identity.gateway_tokens, url)
  IN  IF IsSome(stored) /\ is_empty(b)
      THEN Insert(b, "token", Unwrap(stored).token)
      ELSE b

\* A variant that always puts the auth object into the params.
with_auth_always(params_map, auth) == Insert(params_map, "auth", auth)

\* `if !auth_obj.is_empty() { params_map.insert("auth", ..) }`
with_auth(params_map, auth) ==
  IF ~is_empty(auth) THEN Insert(params_map, "auth", auth) ELSE params_map

\* `if let Some(ref device) = device_obj { params_map.insert("device", ..) }`
with_device(params_map, device) ==
  IF IsSome(device) THEN Insert(params_map, "device", Unwrap(device)) ELSE params_map

\* `let mut params_map` up to the connect_payload.
connect_params(tok, password, identity, url, nonce, signed_at_ms) ==
  LET base == [minProtocol |-> 3, maxProtocol |-> 5, client |-> "openclaw-control-surface",
               role |-> "operator", scopes |-> "operator.*"]
  IN  with_auth(with_device(base, device_obj(nonce, identity, tok, signed_at_ms)),
                auth_obj(tok, password, identity, url))

\* The task is called with any token, password and url, and loads any identity.
InitConnect ==
  /\ InitExec
  /\ InitHost
  /\ InitGateway
  /\ InitNode
  /\ run = NoRun
  /\ store = NoStore
  /\ \E tok \in Tokens, password \in Passwords, url \in Urls, identity \in Identities :
       connect = [NoConnect EXCEPT !.pc = "challenge", !.token = tok, !.password = password,
                                   !.url = url, !.identity = identity]

\* The wait of 5 s at most for connect.challenge.
wait_challenge(first) ==
  /\ connect.pc = "challenge"
  /\ connect' = [connect EXCEPT !.pc = "build", !.first = first,
                                !.nonce = challenge_nonce(first)]
  /\ UNCHANGED <<now, exec_vars, gvars, node_vars, run, store, host_vars>>

\* The connect request as it is handed to write.send.
build_connect ==
  /\ connect.pc = "build"
  /\ connect' = [connect EXCEPT !.pc = "sent",
        !.request = Some([type |-> "req", method |-> "connect",
                          params |-> connect_params(connect.token, connect.password,
                                                    connect.identity, connect.url,
                                                    connect.nonce, now)])]
  /\ UNCHANGED <<now, exec_vars, gvars, node_vars, run, store, host_vars>>

NextConnect ==
  \/ \E first \in ChallengeWaits : wait_challenge(first)
  \/ build_connect

SpecConnect == InitConnect /\ [][NextConnect]_vars

\* ------------------------------------------------------- the node supervisor
\* A worker process: alive; exited and not waited for, cleanly or not; waited
\* for; or not the application's to wait for any more.
NewWorker ==
  [state |-> "alive", success |-> FALSE, end |-> "", signalled |-> FALSE,
   reader |-> "open", fallback |-> "none", fallback_at |-> 0]

Alive(ws) == {w \in DOMAIN ws : ws[w].state = "alive"}

\* A variant that keeps the child when it finds it exited with an error.
refresh_process_state_keeps(rt, ws) ==
  IF rt.child = None
  THEN [runtime |-> rt, workers |-> ws, running |-> FALSE, log |-> None]
  ELSE LET w == Unwrap(rt.child)
       IN  CASE ws[w].state = "alive" ->
                  [runtime |-> rt, workers |-> ws, running |-> TRUE, log |-> None]
             [] ws[w].state = "exited" /\ ws[w].success ->
                  [runtime |-> [rt EXCEPT !.child = None, !.node_status = Some("stopped"),
                                          !.last_error = None],
                   workers |-> [ws EXCEPT ![w].state = "waited"],
                   running |-> FALSE, log |-> Some("node host exited cleanly")]
             [] ws[w].state = "exited" /\ ~ws[w].success ->
                  [runtime |-> rt, workers |-> [ws EXCEPT ![w].state = "waited"],
                   running |-> TRUE, log |-> None]
             [] ws[w].state = "lost" ->
                  [runtime |-> [rt EXCEPT !.child = None, !.node_status = Some("error"),
                        !.last_error = Some("failed to inspect node host process")],
                   workers |-> ws,
                   running |-> FALSE, log |-> Some("failed to inspect node host process")]

\* refresh_process_state(&mut runtime): child.try_wait() on the tracked child.
refresh_process_state(rt, ws) ==
  IF rt.child = None
  THEN [runtime |-> rt, workers |-> ws, running |-> FALSE, log |-> None]
  ELSE LET w == Unwrap(rt.child)
       IN  CASE ws[w].state = "alive" ->
                  [runtime |-> rt, workers |-> ws, running |-> TRUE, log |-> None]
             [] ws[w].state = "exited" /\ ws[w].success ->
                  [runtime |-> [rt EXCEPT !.child = None, !.node_status = Some("stopped"),
                                          !.last_error = None],
                   workers |-> [ws EXCEPT ![w].state = "waited"],
                   running |-> FALSE, log |-> Some("node host exited cleanly")]
             [] ws[w].state = "exited" /\ ~ws[w].success ->
                  [runtime |-> [rt EXCEPT !.child = None, !.node_status = Some("error"),
                        !.last_error = Some("node host exited with status")],
                   workers |-> [ws EXCEPT ![w].state = "waited"],
                   running |-> FALSE, log |-> Some("node host exited with status")]
             [] ws[w].state = "lost" ->
                  [runtime |-> [rt EXCEPT !.child = None, !.node_status = Some("error"),
                        !.last_error = Some("failed to inspect node host process")],
                   workers |-> ws,
                   running |-> FALSE, log |-> Some("failed to inspect node host process")]

\* runtime.node_status = Some(status); app.emit("node-status-changed", status)
Publish(rt, node_status) ==
  [rt EXCEPT !.node_status = Some(node_status), !.emitted = node_status]

Busy == {t \in NodeThreads : node_calls[t].pc # "idle"}

\* A command, the tray menu or the setup hook calls start_node_internal,
\* stop_node_internal or restart_node_internal. `alone` tells whether every
\* call of the thread has run without another call at the same time,
\* `starts_only` whether all of them were calls of start.
node_call(t, op) ==
  /\ node_calls[t].pc = "idle"
  /\ node_calls[t].made < MaxNodeCalls
  /\ node_calls' = [u \in NodeThreads |->
        IF u = t
        THEN [NoNodeCall EXCEPT !.op = op, !.made = node_calls[t].made + 1,
                                !.alone = node_calls[t].alone /\ Busy = {},
                                !.starts_only = node_calls[t].starts_only /\ op = "start",
                                !.pc = IF op = "start" THEN "start" ELSE "stop"]
        ELSE [node_calls[u] EXCEPT !.alone = @ /\ node_calls[u].pc = "idle"]]
  /\ UNCHANGED <<now, target_os, runtime, workers>>
  /\ UNCHANGED <<exec_vars, gvars, connect, run, store, host_vars>>

Return(t, result) ==
  node_calls' = [node_calls EXCEPT ![t].pc = "idle", ![t].result = result]

\* start_node_internal: the first block, up to where the lock is dropped.
start_refresh(t) ==
  /\ node_calls[t].pc = "start"
  /\ LET r == refresh_process_state(runtime, workers)
     IN  /\ runtime' = r.runtime
         /\ workers' = r.workers
         /\ IF IsSome(r.log)
            THEN node_calls' = [node_calls EXCEPT ![t].pc = "start_again"]
            ELSE IF r.running
            THEN Return(t, "ok")
            ELSE node_calls' = [node_calls EXCEPT ![t].pc = "set_starting"]
  /\ UNCHANGED <<now, target_os>>
  /\ UNCHANGED <<exec_vars, gvars, connect, run, store, host_vars>>

\* start_node_internal: after push_log_line(exit_log), under the lock again.
start_again(t) ==
  /\ node_calls[t].pc = "start_again"
  /\ IF IsSome(runtime.child)
     THEN /\ Return(t, "ok")
          /\ UNCHANGED <<runtime, workers>>
     ELSE LET r == refresh_process_state(runtime, workers)
          IN  /\ runtime' = r.runtime
              /\ workers' = r.workers
              /\ IF r.running
                 THEN Return(t, "ok")
                 ELSE node_calls' = [node_calls EXCEPT ![t].pc = "set_starting"]
  /\ UNCHANGED <<now, target_os>>
  /\ UNCHANGED <<exec_vars, gvars, connect, run, store, host_vars>>

\* start_node_internal: "Set status to starting".
set_starting(t) ==
  /\ node_calls[t].pc = "set_starting"
  /\ runtime' = Publish(runtime, "starting")
  /\ node_calls' = [node_calls EXCEPT ![t].pc = "spawn"]
  /\ UNCHANGED <<now, target_os, workers>>
  /\ UNCHANGED <<exec_vars, gvars, connect, run, store, host_vars>>

\* start_node_internal: command.spawn(), with `?` on its error, and the two
\* spawn_log_reader threads.
spawn(t, spawned) ==
  /\ node_calls[t].pc = "spawn"
  /\ IF spawned
     THEN /\ Len(workers) < MaxWorkers
          /\ workers' = Append(workers, NewWorker)
          /\ node_calls' = [node_calls EXCEPT ![t].pc = "track", ![t].child = Len(workers) + 1]
     ELSE /\ Return(t, "failed to start")
          /\ UNCHANGED workers
  /\ UNCHANGED <<now, target_os, runtime>>
  /\ UNCHANGED <<exec_vars, gvars, connect, run, store, host_vars>>

\* start_node_internal: runtime.child = Some(child), the fallback thread, Ok(()).
track(t) ==
  /\ node_calls[t].pc = "track"
  /\ runtime' = [runtime EXCEPT !.child = Some(node_calls[t].child), !.last_error = None]
  /\ workers' = [workers EXCEPT ![node_calls[t].child].fallback = "armed",
                                ![node_calls[t].child].fallback_at = now + STARTING_FALLBACK_MS]
  /\ Return(t, "ok")
  /\ UNCHANGED <<now, target_os>>
  /\ UNCHANGED <<exec_vars, gvars, connect, run, store, host_vars>>

\* The thread that start_node_internal leaves behind, after its sleep of 5 s.
fallback(w) ==
  /\ w \in DOMAIN workers
  /\ workers[w].fallback = "armed"
  /\ now >= workers[w].fallback_at
  /\ LET r == refresh_process_state(runtime, workers)
     IN  /\ runtime' = IF r.running /\ r.runtime.node_status = Some("starting")
                       THEN Publish(r.runtime, "running")
                       ELSE r.runtime
         /\ workers' = [r.workers EXCEPT ![w].fallback = "done"]
  /\ UNCHANGED <<now, target_os, node_calls>>
  /\ UNCHANGED <<exec_vars, gvars, connect, run, store, host_vars>>

\* update_node_status_from_log: what the words of a line make the status.
LogStatuses == {"running", "reconnecting", "disconnected", "error", ""}

LinesRead == Cardinality({w \in DOMAIN workers : workers[w].reader = "read"})

\* spawn_log_reader: one line of the worker's output.
log_line(w, node_status) ==
  /\ w \in DOMAIN workers
  /\ workers[w].reader = "open"
  /\ LinesRead < MaxLogLines
  /\ runtime' = IF node_status = "" THEN runtime ELSE Publish(runtime, node_status)
  /\ workers' = [workers EXCEPT ![w].reader = "read"]
  /\ UNCHANGED <<now, target_os, node_calls>>
  /\ UNCHANGED <<exec_vars, gvars, connect, run, store, host_vars>>

\* spawn_log_reader at the end of the pipe: check_and_emit_child_exit.
log_eof(w) ==
  /\ w \in DOMAIN workers
  /\ workers[w].reader \in {"open", "read"}
  /\ workers[w].state # "alive"
  /\ LET r == refresh_process_state(runtime, workers)
     IN  /\ runtime' = IF ~r.running /\ IsSome(r.runtime.node_status)
                       THEN [r.runtime EXCEPT !.emitted = Unwrap(r.runtime.node_status)]
                       ELSE r.runtime
         /\ workers' = [r.workers EXCEPT ![w].reader = "done"]
  /\ UNCHANGED <<now, target_os, node_calls>>
  /\ UNCHANGED <<exec_vars, gvars, connect, run, store, host_vars>>

\* The worker ends by itself: with status 0, with another status, or out of
\* the application's reach.
worker_exits(w, how) ==
  /\ w \in DOMAIN workers
  /\ workers[w].state = "alive"
  /\ workers' = [workers EXCEPT ![w].state = IF how = "lost" THEN "lost" ELSE "exited",
                                ![w].success = how = "clean",
                                ![w].end = how]
  /\ UNCHANGED <<now, target_os, runtime, node_calls>>
  /\ UNCHANGED <<exec_vars, gvars, connect, run, store, host_vars>>

\* stop_node_internal: the first block; a running child is taken out of the
\* runtime state.
Take(t, r) ==
  IF r.running
  THEN /\ runtime' = [r.runtime EXCEPT !.child = None]
       /\ node_calls' = [node_calls EXCEPT ![t].child = Unwrap(r.runtime.child),
                           ![t].pc = IF target_os = "windows" THEN "kill" ELSE "sigterm"]
  ELSE /\ runtime' = r.runtime
       /\ node_calls' = [node_calls EXCEPT ![t].pc = "stopped"]

stop_refresh(t) ==
  /\ node_calls[t].pc = "stop"
  /\ LET r == refresh_process_state(runtime, workers)
     IN  /\ workers' = r.workers
         /\ IF IsSome(r.log)
            THEN /\ runtime' = r.runtime
                 /\ node_calls' = [node_calls EXCEPT ![t].pc = "stop_again"]
            ELSE Take(t, r)
  /\ UNCHANGED <<now, target_os>>
  /\ UNCHANGED <<exec_vars, gvars, connect, run, store, host_vars>>

\* stop_node_internal: after push_log_line(exit_log), under the lock again.
stop_again(t) ==
  /\ node_calls[t].pc = "stop_again"
  /\ LET r == refresh_process_state(runtime, workers)
     IN  /\ workers' = r.workers
         /\ Take(t, r)
  /\ UNCHANGED <<now, target_os>>
  /\ UNCHANGED <<exec_vars, gvars, connect, run, store, host_vars>>

\* stop_node_internal, not windows: libc::kill(pid, SIGTERM) and the deadline.
sigterm(t) ==
  /\ node_calls[t].pc = "sigterm"
  /\ workers' = [workers EXCEPT ![node_calls[t].child].signalled = TRUE]
  /\ node_calls' = [node_calls EXCEPT ![t].pc = "poll", ![t].deadline = now + STOP_GRACE_MS]
  /\ UNCHANGED <<now, target_os, runtime>>
  /\ UNCHANGED <<exec_vars, gvars, connect, run, store, host_vars>>

\* stop_node_internal, not windows: one turn of the loop that ends it. A turn
\* that finds the child alive before the deadline sleeps and changes nothing.
poll(t) ==
  /\ node_calls[t].pc = "poll"
  /\ LET w == node_calls[t].child
     IN  /\ workers[w].state = "alive" => now >= node_calls[t].deadline
         /\ workers' = [workers EXCEPT ![w].state = IF @ = "lost" THEN "lost" ELSE "waited",
                                       ![w].end = IF workers[w].state = "alive"
                                                  THEN "killed" ELSE @]
  /\ node_calls' = [node_calls EXCEPT ![t].pc = "stopped"]
  /\ UNCHANGED <<now, target_os, runtime>>
  /\ UNCHANGED <<exec_vars, gvars, connect, run, store, host_vars>>

\* stop_node_internal, windows: child.kill() with `?` on its error, child.wait().
kill(t, killed) ==
  /\ node_calls[t].pc = "kill"
  /\ LET w == node_calls[t].child
     IN  IF killed \/ workers[w].state # "alive"
         THEN /\ workers' = [workers EXCEPT
                               ![w].state = IF @ = "lost" THEN "lost" ELSE "waited",
                               ![w].end = IF workers[w].state = "alive" THEN "killed" ELSE @]
              /\ node_calls' = [node_calls EXCEPT ![t].pc = "stopped"]
         ELSE /\ Return(t, "failed to stop")
              /\ UNCHANGED workers
  /\ UNCHANGED <<now, target_os, runtime>>
  /\ UNCHANGED <<exec_vars, gvars, connect, run, store, host_vars>>

\* stop_node_internal: the status stopped and Ok(()); restart_node_internal
\* goes on with start_node_internal.
stopped(t) ==
  /\ node_calls[t].pc = "stopped"
  /\ runtime' = Publish(runtime, "stopped")
  /\ IF node_calls[t].op = "restart"
     THEN node_calls' = [node_calls EXCEPT ![t].pc = "start"]
     ELSE Return(t, "ok")
  /\ UNCHANGED <<now, target_os, workers>>
  /\ UNCHANGED <<exec_vars, gvars, connect, run, store, host_vars>>

\* The deadlines somebody waits for: the loop of stop and the fallback threads.
NodeDeadlines ==
  {node_calls[t].deadline : t \in {u \in NodeThreads : node_calls[u].pc = "poll"}}
    \cup {workers[w].fallback_at : w \in {v \in DOMAIN workers : workers[v].fallback = "armed"}}

node_tick ==
  /\ NodeDeadlines # {}
  /\ \A d \in NodeDeadlines : d > now
  /\ LET first == CHOOSE d \in NodeDeadlines : \A e \in NodeDeadlines : d <= e
     IN  now' = IF now + NodeTickMs < first THEN now + NodeTickMs ELSE first
  /\ UNCHANGED <<target_os, runtime, workers, node_calls>>
  /\ UNCHANGED <<exec_vars, gvars, connect, run, store, host_vars>>

\* Either build, nothing started.
InitSupervisor ==
  /\ InitExec
  /\ InitHost
  /\ InitGateway
  /\ connect = NoConnect
  /\ target_os \in {"windows", "linux"}
  /\ InitRuntime
  /\ run = NoRun
  /\ store = NoStore

NextSupervisor ==
  \/ \E t \in NodeThreads : \E op \in {"start", "stop", "restart"} :
       node_call(t, op)
  \/ \E t \in NodeThreads : start_refresh(t)
  \/ \E t \in NodeThreads : start_again(t)
  \/ \E t \in NodeThreads : set_starting(t)
  \/ \E t \in NodeThreads : \E spawned \in BOOLEAN : spawn(t, spawned)
  \/ \E t \in NodeThreads : track(t)
  \/ \E w \in DOMAIN workers : fallback(w)
  \/ \E w \in DOMAIN workers : \E node_status \in LogStatuses : log_line(w, node_status)
  \/ \E w \in DOMAIN workers : log_eof(w)
  \/ \E w \in DOMAIN workers : \E how \in {"clean", "failed", "lost"} : worker_exits(w, how)
  \/ \E t \in NodeThreads : stop_refresh(t)
  \/ \E t \in NodeThreads : stop_again(t)
  \/ \E t \in NodeThreads : sigterm(t)
  \/ \E t \in NodeThreads : poll(t)
  \/ \E t \in NodeThreads : \E killed \in BOOLEAN : kill(t, killed)
  \/ \E t \in NodeThreads : stopped(t)
  \/ node_tick

SpecSupervisor == InitSupervisor /\ [][NextSupervisor]_vars

\* The tray menu, the UI and the auto-start call from threads of their own.
MaxCallers == 2
MaxCallerCalls == 1

InitCallers ==
  /\ InitExec
  /\ InitHost
  /\ InitGateway
  /\ connect = NoConnect
  /\ target_os \in {"windows", "linux"}
  /\ runtime = [child |-> None, last_error |-> None, node_status |-> None, emitted |-> ""]
  /\ workers = <<>>
  /\ node_calls = [t \in 1..MaxCallers |-> NoNodeCall]
  /\ run = NoRun
  /\ store = NoStore

NextCallers ==
  \/ \E t \in NodeThreads : \E op \in {"start", "stop", "restart"} :
       node_calls[t].made < MaxCallerCalls /\ node_call(t, op)
  \/ \E t \in NodeThreads : start_refresh(t)
  \/ \E t \in NodeThreads : start_again(t)
  \/ \E t \in NodeThreads : set_starting(t)
  \/ \E t \in NodeThreads : \E spawned \in BOOLEAN : spawn(t, spawned)
  \/ \E t \in NodeThreads : track(t)
  \/ \E w \in DOMAIN workers : fallback(w)
  \/ \E w \in DOMAIN workers : \E node_status \in LogStatuses : log_line(w, node_status)
  \/ \E w \in DOMAIN workers : log_eof(w)
  \/ \E w \in DOMAIN workers : \E how \in {"clean", "failed", "lost"} : worker_exits(w, how)
  \/ \E t \in NodeThreads : stop_refresh(t)
  \/ \E t \in NodeThreads : stop_again(t)
  \/ \E t \in NodeThreads : sigterm(t)
  \/ \E t \in NodeThreads : poll(t)
  \/ \E t \in NodeThreads : \E killed \in BOOLEAN : kill(t, killed)
  \/ \E t \in NodeThreads : stopped(t)
  \/ node_tick

SpecCallers == InitCallers /\ [][NextCallers]_vars

\* ------------------------------------------------------------ the exec runner
\* run_exec_command on its own: the child process, its two pipes, the wait
\* under tokio::time::timeout and the reads that follow it.
PipeCapacity == 1      \* what a pipe holds while nobody reads it, in blocks of output
MaxTimeoutMs == 1000   \* the positive timeoutMs a request carries
DEFAULT_TIMEOUT_MS == 120000

Streams == {"stdout", "stderr"}

\* A command: its argv; the blocks it writes to each stream; the time it runs
\* when its writes do not block; its ExitStatus (code() is None when a signal
\* ended it); and for how long a process it started keeps the write ends of
\* the pipes open (0: it starts none).
Outputs == 0..(PipeCapacity + 1)
Commands ==
  [argv : {<<>>, <<"cmd">>}, stdout : Outputs, stderr : Outputs,
   takes : {1, MaxTimeoutMs, DEFAULT_TIMEOUT_MS + 1},
   status : {Some(0), Some(1), None},
   holds : {0, 2, 2 * DEFAULT_TIMEOUT_MS}]

TimeoutInputs == {None, Some(-1), Some(0), Some(MaxTimeoutMs)}

ExecHostRunResult(exit_code, timed_out, success, stdout, stderr, error) ==
  [exit_code |-> exit_code, timed_out |-> timed_out, success |-> success,
   stdout |-> stdout, stderr |-> stderr, error |-> error]

\* timeout_ms.and_then(|ms| if ms > 0 { Some(ms as u64) } else { None })
\*           .unwrap_or(120_000)
timeout(timeout_ms) ==
  IF IsSome(timeout_ms) /\ Unwrap(timeout_ms) > 0
  THEN Unwrap(timeout_ms)
  ELSE DEFAULT_TIMEOUT_MS

\* A process the command started still has the write ends of the pipes.
Held == run.command.holds > 0 /\ now < run.started + run.command.holds

\* The checks of argv and cmd.spawn(), the handles taken, the timeout set.
run_spawn(spawned) ==
  /\ run.pc = "spawn"
  /\ run' =
       IF run.command.argv = <<>>
       THEN [run EXCEPT !.pc = "done",
               !.result = Some(ExecHostRunResult(None, FALSE, FALSE, 0, 0,
                                                 Some("empty command")))]
       ELSE IF ~spawned
       THEN [run EXCEPT !.pc = "done",
               !.result = Some(ExecHostRunResult(None, FALSE, FALSE, 0, 0,
                                                 Some("spawn error")))]
       ELSE [run EXCEPT !.pc = "waiting", !.child = "running", !.started = now,
               !.deadline = now + timeout(run.timeout_ms),
               !.todo = [stdout |-> run.command.stdout, stderr |-> run.command.stderr]]
  /\ UNCHANGED <<now, exec_vars, gvars, connect, node_vars, store, host_vars>>

\* The command writes a block to a pipe that has room for it.
child_writes(stream) ==
  /\ run.child = "running"
  /\ run.todo[stream] > 0
  /\ run.pipe[stream] < PipeCapacity
  /\ run' = [run EXCEPT !.todo[stream] = @ - 1, !.pipe[stream] = @ + 1]
  /\ UNCHANGED <<now, exec_vars, gvars, connect, node_vars, store, host_vars>>

\* The command ends by itself, all its output written.
child_exits ==
  /\ run.child = "running"
  /\ \A stream \in Streams : run.todo[stream] = 0
  /\ now >= run.started + run.command.takes
  /\ run' = [run EXCEPT !.child = "exited", !.exited_at = now]
  /\ UNCHANGED <<now, exec_vars, gvars, connect, node_vars, store, host_vars>>

\* Ok(Ok(status)): child.wait() returns the status of the child that ended.
wait_ok ==
  /\ run.pc = "waiting"
  /\ run.child = "exited"
  /\ run' = [run EXCEPT !.pc = "read_stdout", !.child = "reaped"]
  /\ UNCHANGED <<now, exec_vars, gvars, connect, node_vars, store, host_vars>>

\* Ok(Err(e)): child.wait() fails; kill, wait, "wait error".
wait_err ==
  /\ run.pc = "waiting"
  /\ run' = [run EXCEPT !.pc = "done",
               !.child = IF run.child = "running" THEN "killed" ELSE "reaped",
               !.result = Some(ExecHostRunResult(None, FALSE, FALSE, 0, 0,
                                                 Some("wait error")))]
  /\ UNCHANGED <<now, exec_vars, gvars, connect, node_vars, store, host_vars>>

\* Err(_): the timeout elapses with the child not ended.
wait_elapsed ==
  /\ run.pc = "waiting"
  /\ run.child = "running"
  /\ now >= run.deadline
  /\ run' = [run EXCEPT !.pc = "kill"]
  /\ UNCHANGED <<now, exec_vars, gvars, connect, node_vars, store, host_vars>>

\* child.kill().await; child.wait().await; "command timed out".
kill_and_wait ==
  /\ run.pc = "kill"
  /\ run' = [run EXCEPT !.pc = "done",
               !.child = IF run.child = "running" THEN "killed" ELSE "reaped",
               !.result = Some(ExecHostRunResult(None, TRUE, FALSE, 0, 0,
                                                 Some("command timed out")))]
  /\ UNCHANGED <<now, exec_vars, gvars, connect, node_vars, store, host_vars>>

\* h.read_to_end(&mut buf).await: returns at the end of the stream, when no
\* process has the write end of the pipe any more. After stderr, the result.
read_to_end(stream) ==
  /\ run.pc = IF stream = "stdout" THEN "read_stdout" ELSE "read_stderr"
  /\ ~Held
  /\ LET read == [run.read EXCEPT ![stream] = run.pipe[stream]]
     IN  run' = [run EXCEPT !.read = read, !.pipe[stream] = 0,
                   !.pc = IF stream = "stdout" THEN "read_stderr" ELSE "done",
                   !.result = IF stream = "stdout" THEN None
                              ELSE Some(ExecHostRunResult(run.command.status, FALSE,
                                          run.command.status = Some(0),
                                          read.stdout, read.stderr, None))]
  /\ UNCHANGED <<now, exec_vars, gvars, connect, node_vars, store, host_vars>>

\* The times at which something happens by itself: the timeout, the end of a
\* command that is not blocked, the end of the process that holds the pipes.
RunDeadlines ==
  (IF run.pc = "waiting" THEN {run.deadline} ELSE {})
  \cup (IF run.child = "running" /\ \A stream \in Streams : run.todo[stream] = 0
        THEN {run.started + run.command.takes} ELSE {})
  \cup (IF run.pc \in {"read_stdout", "read_stderr"} /\ Held
        THEN {run.started + run.command.holds} ELSE {})

\* Time passes up to the next of them, while no step is due.
run_tick ==
  /\ RunDeadlines # {}
  /\ \A d \in RunDeadlines : d > now
  /\ run.pc # "kill"
  /\ ~(run.pc = "waiting" /\ run.child = "exited")
  /\ \A stream \in Streams :
       ~(run.child = "running" /\ run.todo[stream] > 0 /\ run.pipe[stream] < PipeCapacity)
  /\ now' = CHOOSE d \in RunDeadlines : \A e \in RunDeadlines : d <= e
  /\ UNCHANGED <<exec_vars, gvars, connect, node_vars, run, store, host_vars>>

\* The function is called with any command and any timeoutMs.
InitRunner ==
  /\ InitExec
  /\ InitHost
  /\ InitGateway
  /\ connect = NoConnect
  /\ InitNode
  /\ store = NoStore
  /\ \E command \in Commands, timeout_ms \in TimeoutInputs :
       run = [NoRun EXCEPT !.pc = "spawn", !.command = command, !.timeout_ms = timeout_ms]

NextRunner ==
  \/ \E spawned \in BOOLEAN : run_spawn(spawned)
  \/ \E stream \in Streams : child_writes(stream)
  \/ child_exits
  \/ wait_ok
  \/ wait_err
  \/ wait_elapsed
  \/ kill_and_wait
  \/ \E stream \in Streams : read_to_end(stream)
  \/ run_tick

SpecRunner == InitRunner /\ [][NextRunner]_vars

\* --------------------------------------------------------- the identity file
\* identity/node-client-device.json as load_or_create_device_identity and
\* save_device_identity read and write it from the run_gateway_connection
\* tasks. The file is absent (None), or holds an identity, or text that does
\* not parse as one: Corrupt from the start, Partial while a write of
\* std::fs::write has created or truncated it and not yet written all of it.
DeviceTokens == {"device-tok", "device-tok-2"}

Corrupt == [text |-> "corrupt"]
Partial == [text |-> "partial"]

\* serde_json::from_str::<DeviceIdentity>(&json) is Ok.
IsIdentity(file) == IsSome(file) /\ "device_id" \in DOMAIN Unwrap(file)

\* SigningKey::generate(&mut OsRng) and the DeviceIdentity made of it: the
\* n-th key pair differs from all others; deviceId = hex(sha256(public key)).
generate(n) ==
  [device_id |-> <<"sha256", <<"pub", n>>>>, public_key_bytes |-> <<"pub", n>>,
   private_key_bytes |-> <<"seed", n>>, gateway_tokens |-> EmptyMap]

\* run_gateway_connection reaches `Load device identity`.
load_begin(t, url) ==
  /\ store.tasks[t].pc = "none"
  /\ store' = [store EXCEPT !.tasks[t].pc = "exists", !.tasks[t].url = url]
  /\ UNCHANGED <<now, exec_vars, gvars, connect, node_vars, run, host_vars>>

\* identity_path.exists()
exists(t) ==
  /\ store.tasks[t].pc = "exists"
  /\ store' = IF store.file = None
              THEN [store EXCEPT !.tasks[t].pc = "generate", !.tasks[t].found = "missing"]
              ELSE [store EXCEPT !.tasks[t].pc = "read"]
  /\ UNCHANGED <<now, exec_vars, gvars, connect, node_vars, run, host_vars>>

\* An Err of load_or_create_device_identity: unwrap_or_else makes an identity
\* in memory, of a new key pair.
Fallback(t) ==
  [store EXCEPT !.tasks[t].pc = "handshake", !.tasks[t].found = "error",
                !.tasks[t].identity = Some(generate(store.keys + 1)),
                !.keys = @ + 1]

\* std::fs::read_to_string (with `?`) and serde_json::from_str.
read_to_string(t, read) ==
  /\ store.tasks[t].pc = "read"
  /\ store' =
       IF ~read
       THEN Fallback(t)
       ELSE IF IsIdentity(store.file)
       THEN [store EXCEPT !.tasks[t].pc = "handshake", !.tasks[t].found = "identity",
                          !.tasks[t].identity = store.file]
       ELSE [store EXCEPT !.tasks[t].pc = "generate", !.tasks[t].found = "corrupt"]
  /\ UNCHANGED <<now, exec_vars, gvars, connect, node_vars, run, host_vars>>

\* `Generate fresh keypair` up to the start of std::fs::write(&identity_path,
\* &json), which creates or truncates the file; an error of create_dir_all or
\* of the write returns Err.
create(t, created) ==
  /\ store.tasks[t].pc = "generate"
  /\ store' =
       IF created
       THEN [store EXCEPT !.tasks[t].pc = "create_write",
                          !.tasks[t].identity = Some(generate(store.keys + 1)),
                          !.keys = @ + 1, !.file = Some(Partial)]
       ELSE Fallback(t)
  /\ UNCHANGED <<now, exec_vars, gvars, connect, node_vars, run, host_vars>>

\* The write has all of the identity in the file: Ok(identity).
create_write(t) ==
  /\ store.tasks[t].pc = "create_write"
  /\ store' = [store EXCEPT !.tasks[t].pc = "handshake",
                            !.file = store.tasks[t].identity,
                            !.last = store.tasks[t].identity, !.intact = TRUE]
  /\ UNCHANGED <<now, exec_vars, gvars, connect, node_vars, run, host_vars>>

\* The handshake: it fails, or hello-ok comes without auth.deviceToken, or with
\* one: identity.gateway_tokens.insert(url, ..) and the start of the write of
\* save_device_identity.
handshake(t, device_token) ==
  /\ store.tasks[t].pc = "handshake"
  /\ store' =
       IF device_token = None
       THEN [store EXCEPT !.tasks[t].pc = "done"]
       ELSE LET identity == Unwrap(store.tasks[t].identity)
                tokens == Insert(identity.gateway_tokens, store.tasks[t].url,
                                 [token |-> Unwrap(device_token)])
            IN  [store EXCEPT !.tasks[t].pc = "save_write",
                              !.tasks[t].identity =
                                 Some([identity EXCEPT !.gateway_tokens = tokens]),
                              !.file = Some(Partial)]
  /\ UNCHANGED <<now, exec_vars, gvars, connect, node_vars, run, host_vars>>

\* save_device_identity: the write has all of the identity in the file.
save_write(t) ==
  /\ store.tasks[t].pc = "save_write"
  /\ store' = [store EXCEPT !.tasks[t].pc = "done",
                            !.file = store.tasks[t].identity,
                            !.last = store.tasks[t].identity, !.intact = TRUE]
  /\ UNCHANGED <<now, exec_vars, gvars, connect, node_vars, run, host_vars>>

\* The process dies, whatever its tasks are doing, and is started again.
crash ==
  /\ store.crashes < MaxCrashes
  /\ \E t \in StoreTasks : store.tasks[t].pc # "none"
  /\ store' = [store EXCEPT !.crashes = @ + 1,
                            !.tasks = [t \in StoreTasks |-> NoStoreTask],
                            !.intact = store.intact /\ store.file # Some(Partial)]
  /\ UNCHANGED <<now, exec_vars, gvars, connect, node_vars, run, host_vars>>

\* The data directory at the start: no identity file, one that does not
\* parse, or the first identity, with a device token or without.
InitStore ==
  /\ InitExec
  /\ InitHost
  /\ InitGateway
  /\ connect = NoConnect
  /\ InitNode
  /\ run = NoRun
  /\ \E file \in {None, Some(Corrupt)}
                   \cup {Some([generate(1) EXCEPT !.gateway_tokens = tokens]) :
                           tokens \in GatewayTokens} :
       store = [NoStore EXCEPT !.file = file,
                               !.last = IF IsIdentity(file) THEN file ELSE None,
                               !.intact = IsIdentity(file),
                               !.keys = IF IsIdentity(file) THEN 1 ELSE 0]

NextStore ==
  \/ \E t \in StoreTasks : \E url \in Urls : load_begin(t, url)
  \/ \E t \in StoreTasks : exists(t)
  \/ \E t \in StoreTasks : \E read \in BOOLEAN : read_to_string(t, read)
  \/ \E t \in StoreTasks : \E created \in BOOLEAN : create(t, created)
  \/ \E t \in StoreTasks : create_write(t)
  \/ \E t \in StoreTasks : \E device_token \in {None} \cup {Some(d) : d \in DeviceTokens} :
       handshake(t, device_token)
  \/ \E t \in StoreTasks : save_write(t)
  \/ crash

SpecStore == InitStore /\ [][NextStore]_vars

\* ------------------------------------------------------------ the main loop
MaxLoopCalls == 2

\* A session in its main loop right after set_tx(Some(rpc_tx)): the connect
\* request had id 1, no gateway_rpc call was made yet. `inbound` counts the
\* frames of the main loop here.
InitMainLoop ==
  /\ InitExec
  /\ InitUnits
  /\ status = Status("connected", None, None, Some(DeviceId))
  /\ tx = Some(1)
  /\ seq = 1
  /\ sessions = [s \in Sessions |->
                   IF s = 1
                   THEN [NoSession EXCEPT !.pc = "main", !.by = "main", !.connect_id = 1,
                                          !.sent = 1, !.sent_at = now]
                   ELSE NoSession]
  /\ rpcs = [k \in 1..MaxLoopCalls |-> NoRpc]
  /\ disconnects = [calls |-> 0, pc |-> "idle"]
  /\ inbound = 0
  /\ emitted = [NoEmit EXCEPT !.event = "gateway-connected", !.session = 1]

NextMainLoop ==
  \/ \E s \in Sessions : \E sent \in BOOLEAN : main_recv_rpc(s, sent)
  \/ \E s \in Sessions : main_channel_closed(s)
  \/ \E s \in Sessions : sessions[s].pc = "main" /\ \E f \in MainFrames : main_frame(s, f)
  \/ \E s \in Sessions : exit_set_tx(s)
  \/ \E s \in Sessions : exit_set_status(s)
  \/ \E s \in Sessions : drain(s)
  \/ \E k \in Calls : gateway_rpc_clone(k)
  \/ \E k \in Calls : gateway_rpc_send(k)
  \/ \E k \in Calls : gateway_rpc_timeout(k)
  \/ gateway_disconnect_tx
  \/ gateway_disconnect_status
  \/ gateway_tick

SpecMainLoop == InitMainLoop /\ [][NextMainLoop]_vars

\* ------------------------------------------------- exec-approvals.json (main.rs)
\* A JSON object is a function from its keys to its values (Insert, Get).

\* exec_host_socket_path(): one address per machine.
SocketPaths == {"/run/user/1000/openclaw/exec-approvals.sock"}

\* generate_token(): one secret per run of the application.
ApprovalTokens == {"secret-1", "secret-2"}

Securities == {"deny", "allowlist"}

\* exec-approvals.json as the application may find it: a full file, a file of
\* another writer that carries no version, and a file with an old entry.
ApprovalsDocs ==
  { [version |-> 1],
    [version |-> 1, defaults |-> [security |-> "deny"],
     agents |-> [main |-> [security |-> "allowlist"]], theme |-> "dark"],
    [defaults |-> [security |-> "deny"],
     agents |-> [main |-> [security |-> "allowlist"]]],
    [version |-> 1, socket |-> [path |-> "/tmp/old.sock", token |-> "secret-0"],
     defaults |-> [security |-> "allowlist", note |-> "kept"]] }

Restrict(map, keys) == [k \in DOMAIN map \cap keys |-> map[k]]

\* ExecApprovalsFile { version: 1, socket: None, defaults: None, agents: None,
\* extra: HashMap::new() }
DefaultFile ==
  [version |-> 1, socket |-> None, defaults |-> None, agents |-> None,
   extra |-> Restrict([version |-> 1], {})]

\* Deserialize for ExecApprovalsSocket: path and token are optional, other
\* members are ignored.
socket_from(value) == [path |-> Get(value, "path"), token |-> Get(value, "token")]

\* Deserialize for ExecApprovalsDefaults: three optional strings, the other
\* members flattened into extra.
defaults_from(value) ==
  [security |-> Get(value, "security"), ask |-> Get(value, "ask"),
   ask_fallback |-> Get(value, "askFallback"),
   extra |-> Restrict(value, DOMAIN value \ {"security", "ask", "askFallback"})]

\* serde_json::from_str::<ExecApprovalsFile>: None stands for Err. version is
\* required; socket, defaults and agents are optional; every other member goes
\* to extra.
from_str(raw) ==
  IF "version" \notin DOMAIN raw
  THEN None
  ELSE Some([version |-> raw["version"],
             socket |-> IF "socket" \in DOMAIN raw THEN Some(socket_from(raw["socket"]))
                        ELSE None,
             defaults |-> IF "defaults" \in DOMAIN raw
                          THEN Some(defaults_from(raw["defaults"])) ELSE None,
             agents |-> Get(raw, "agents"),
             extra |-> Restrict(raw, DOMAIN raw \ {"version", "socket", "defaults",
                                                    "agents"})])

\* Option<T> members with skip_serializing_if = "Option::is_none".
with_some(map, key, option) ==
  IF IsSome(option) THEN Insert(map, key, Unwrap(option)) ELSE map

socket_to(socket) ==
  with_some(with_some(Restrict([path |-> ""], {}), "path", socket.path), "token",
            socket.token)

defaults_to(defaults) ==
  with_some(with_some(with_some(defaults.extra, "security", defaults.security), "ask",
                      defaults.ask), "askFallback", defaults.ask_fallback)

\* serde_json::to_string_pretty(&file)
to_string_pretty(file) ==
  with_some(
    with_some(
      with_some(Insert(file.extra, "version", file.version), "socket",
                IF IsSome(file.socket) THEN Some(socket_to(Unwrap(file.socket))) ELSE None),
      "defaults",
      IF IsSome(file.defaults) THEN Some(defaults_to(Unwrap(file.defaults))) ELSE None),
    "agents", file.agents)

\* serde_json::from_str(&raw).unwrap_or(ExecApprovalsFile { .. })
unwrap_or(result, default) == IF IsSome(result) THEN Unwrap(result) ELSE default

\* merge_exec_approvals_socket: the file it leaves. `io_ok` tells that no
\* create_dir_all, read_to_string, write or rename failed; a failure returns
\* before the rename.
merge_exec_approvals_socket(file, socket_path, tok, io_ok) ==
  IF ~io_ok
  THEN file
  ELSE LET parsed == IF IsSome(file) THEN unwrap_or(from_str(Unwrap(file)), DefaultFile)
                     ELSE DefaultFile
       IN  Some(to_string_pretty(
                  [parsed EXCEPT !.socket = Some([path |-> Some(socket_path),
                                                  token |-> Some(tok)])]))

\* clear_exec_approvals_socket: the file it leaves.
clear_exec_approvals_socket(file, io_ok) ==
  IF ~IsSome(file) \/ ~io_ok
  THEN file
  ELSE LET parsed == unwrap_or(from_str(Unwrap(file)), DefaultFile)
       IN  Some(to_string_pretty([parsed EXCEPT !.socket = Some([path |-> None,
                                                                 token |-> None])]))

\* main(): generate_token() at the start of a run.
launch(tok) ==
  /\ approvals_file.phase \in {"none", "exited"}
  /\ approvals_file.launches < MaxLaunches
  /\ approvals_file' = [approvals_file EXCEPT !.phase = "setup", !.token = tok,
                                              !.launches = @ + 1, !.op = "launch",
                                              !.ok = TRUE]
  /\ UNCHANGED <<now, exec_vars, gvars, connect, node_vars, run, store, pool>>

\* The setup hook: "Register socket in exec-approvals.json"; an error is
\* printed and the application goes on.
setup(io_ok) ==
  /\ approvals_file.phase = "setup"
  /\ \E socket_path \in SocketPaths :
       approvals_file' =
         [approvals_file EXCEPT
            !.file = merge_exec_approvals_socket(approvals_file.file, socket_path,
                                                 approvals_file.token, io_ok),
            !.phase = "running", !.op = "register", !.ok = io_ok]
  /\ UNCHANGED <<now, exec_vars, gvars, connect, node_vars, run, store, pool>>

\* set_exec_policy: read_exec_approvals_file (a file that does not parse is an
\* error), defaults.security = security, write_exec_approvals_file.
set_exec_policy(security, io_ok) ==
  /\ approvals_file.phase = "running"
  /\ LET file == approvals_file.file
         read == IF IsSome(file) THEN from_str(Unwrap(file)) ELSE Some(DefaultFile)
     IN  approvals_file' =
           [approvals_file EXCEPT
              !.file = IF IsSome(read) /\ io_ok
                       THEN LET defaults ==
                                  IF IsSome(Unwrap(read).defaults)
                                  THEN Unwrap(Unwrap(read).defaults)
                                  ELSE defaults_from(Restrict([security |-> ""], {}))
                            IN  Some(to_string_pretty(
                                  [Unwrap(read) EXCEPT
                                     !.defaults = Some([defaults EXCEPT
                                                          !.security = security,
                                                          !.ask = None,
                                                          !.ask_fallback = None])]))
                       ELSE file,
              !.op = "policy", !.ok = IsSome(read) /\ io_ok]
  /\ UNCHANGED <<now, exec_vars, gvars, connect, node_vars, run, store, pool>>

\* The tray's "quit": clear_exec_approvals_socket, stop_node_internal,
\* app.exit(0); the result of the clearing is dropped.
quit(io_ok) ==
  /\ approvals_file.phase = "running"
  /\ approvals_file' =
       [approvals_file EXCEPT
          !.file = clear_exec_approvals_socket(approvals_file.file, io_ok),
          !.phase = "exiting", !.op = "clear", !.ok = io_ok]
  /\ UNCHANGED <<now, exec_vars, gvars, connect, node_vars, run, store, pool>>

\* The window manager or a signal ends the event loop.
close ==
  /\ approvals_file.phase = "running"
  /\ approvals_file' = [approvals_file EXCEPT !.phase = "exiting", !.op = "close",
                                              !.ok = TRUE]
  /\ UNCHANGED <<now, exec_vars, gvars, connect, node_vars, run, store, pool>>

\* RunEvent::Exit: stop_node_internal, then clear_exec_approvals_socket with
\* its result dropped.
run_exit(io_ok) ==
  /\ approvals_file.phase = "exiting"
  /\ approvals_file' =
       [approvals_file EXCEPT
          !.file = clear_exec_approvals_socket(approvals_file.file, io_ok),
          !.phase = "exited", !.op = "clear", !.ok = io_ok]
  /\ UNCHANGED <<now, exec_vars, gvars, connect, node_vars, run, store, pool>>

InitApprovals ==
  /\ InitExec
  /\ InitGateway
  /\ connect = NoConnect
  /\ InitNode
  /\ run = NoRun
  /\ store = NoStore
  /\ pool = [task \in 1..(WorkerThreads + 2) |-> NoTask]
  /\ \E file \in {None} \cup {Some(doc) : doc \in ApprovalsDocs} :
       approvals_file = [NoApprovals EXCEPT !.file = file]

NextApprovals ==
  \/ \E tok \in ApprovalTokens : launch(tok)
  \/ \E io_ok \in BOOLEAN : setup(io_ok)
  \/ \E security \in {None} \cup {Some(s) : s \in Securities} : \E io_ok \in BOOLEAN :
       set_exec_policy(security, io_ok)
  \/ \E io_ok \in BOOLEAN : quit(io_ok)
  \/ close
  \/ \E io_ok \in BOOLEAN : run_exit(io_ok)

SpecApprovals == InitApprovals /\ [][NextApprovals]_vars

\* ------------------------------------------------- the async runtime (main.rs)
\* tauri::async_runtime: a fixed number of worker threads run the spawned
\* tasks. Task 1 is run_gateway_connection in its main loop, the others are
\* the handle_socket_connection tasks start_exec_host_server spawns. A task
\* holds a worker thread from the poll that resumes it to its next await that
\* is pending; rx.recv_timeout is not an await and keeps the thread.
PoolTasks == DOMAIN pool

GatewayTask == CHOOSE task \in PoolTasks : \A u \in PoolTasks : task <= u

Occupied == {task \in PoolTasks : pool[task].pc \in {"running", "recv"}}

\* A request line arrives on the connection, a frame or an outbound request
\* reaches the session: the task is woken.
task_input(task) ==
  /\ pool[task].pc = "parked"
  /\ pool[task].handled < MaxTaskInputs
  /\ pool' = [pool EXCEPT ![task].pc = "ready"]
  /\ UNCHANGED <<now, exec_vars, gvars, connect, node_vars, run, store, approvals_file>>

\* A worker thread that runs no task polls a task that was woken.
task_poll(task) ==
  /\ pool[task].pc = "ready"
  /\ Cardinality(Occupied) < WorkerThreads
  /\ pool' = [pool EXCEPT ![task].pc = "running"]
  /\ UNCHANGED <<now, exec_vars, gvars, connect, node_vars, run, store, approvals_file>>

\* One turn of the session's main loop, back to tokio::select!.
gateway_turn ==
  /\ pool[GatewayTask].pc = "running"
  /\ pool' = [pool EXCEPT ![GatewayTask].pc = "parked", ![GatewayTask].handled = @ + 1]
  /\ UNCHANGED <<now, exec_vars, gvars, connect, node_vars, run, store, approvals_file>>

\* process_socket_line for a line that is answered without a decision, and
\* writer.write_all; back to lines.next_line().await.
handler_answers(task) ==
  /\ task # GatewayTask
  /\ pool[task].pc = "running"
  /\ pool' = [pool EXCEPT ![task].pc = "parked", ![task].handled = @ + 1]
  /\ UNCHANGED <<now, exec_vars, gvars, connect, node_vars, run, store, approvals_file>>

\* handle_exec_message and handle_approval_request: the entry is registered
\* and the handler calls rx.recv_timeout(120 s) on the worker thread.
handler_waits(task) ==
  /\ task # GatewayTask
  /\ pool[task].pc = "running"
  /\ pool' = [pool EXCEPT ![task].pc = "recv", ![task].deadline = now + APPROVAL_TIMEOUT_MS]
  /\ UNCHANGED <<now, exec_vars, gvars, connect, node_vars, run, store, approvals_file>>

\* recv_timeout returns, with the decision that decide_approval sent from the
\* main thread or with the timeout; the handler answers and awaits its next line.
handler_resumes(task, decision) ==
  /\ pool[task].pc = "recv"
  /\ ~IsSome(decision) => now >= pool[task].deadline
  /\ pool' = [pool EXCEPT ![task].pc = "parked", ![task].handled = @ + 1]
  /\ UNCHANGED <<now, exec_vars, gvars, connect, node_vars, run, store, approvals_file>>

PoolDeadlines == {pool[task].deadline : task \in {u \in PoolTasks : pool[u].pc = "recv"}}

\* Time passes up to the earliest deadline of a waiting handler.
pool_tick ==
  /\ PoolDeadlines # {}
  /\ \A d \in PoolDeadlines : d > now
  /\ now' = CHOOSE d \in PoolDeadlines : \A e \in PoolDeadlines : d <= e
  /\ UNCHANGED <<exec_vars, gvars, unit_vars>>

NextPool ==
  \/ \E task \in PoolTasks : task_input(task)
  \/ \E task \in PoolTasks : task_poll(task)
  \/ gateway_turn
  \/ \E task \in PoolTasks : handler_answers(task)
  \/ \E task \in PoolTasks : handler_waits(task)
  \/ \E task \in PoolTasks : \E decision \in {None} \cup {Some(d) : d \in Decisions} :
       handler_resumes(task, decision)
  \/ pool_tick

SpecPool == Init /\ [][NextPool]_vars

\* ---------------------------------------------------------------- properties
Allow == {"allow-once", "allow-always"}
Denied == Some(make_error_response("denied"))
ViaApproval(c) == cur[c].kind # "none" /\ ~cur[c].direct
Published(c) == cur[c].events[1].payload

\* C1: a command that went through the approval flow is run only after an
\* allow-once or allow-always decision was accepted for its approval and
\* received by the handler no later than the deadline; a deny decision, the
\* timeout and the dropped sender all end in the "denied" response with no
\* process spawned.
C1_RunOnlyIfAllowed ==
  /\ \A c \in Conns :
       /\ pc[c] = "recv" => now <= cur[c].deadline
       /\ (pc[c] = "run" /\ ViaApproval(c)) =>
            /\ cur[c].how = "decided"
            /\ cur[c].decision \in Allow
            /\ cur[c].accepted # <<>>
            /\ cur[c].accepted[1] = cur[c].decision
  /\ (out.kind = "exec" /\ out.via = "approval") =>
       /\ out.spawned =>
            /\ out.how = "decided"
            /\ out.decision \in Allow
            /\ out.accepted # <<>>
            /\ out.accepted[1] = out.decision
       /\ (out.decision = "deny" \/ out.how # "decided") =>
            /\ out.resp = Denied
            /\ ~out.spawned

C1_Witness ==
  /\ out.kind = "exec"
  /\ out.via = "approval"
  /\ out.spawned
  /\ out.decision = "allow-always"

\* The checks of handle_exec_message in the order the specification gives,
\* each stated on its own.
CheckOrder ==
  <<"missing-nonce", "missing-ts", "missing-hmac", "missing-request",
    "expired", "hmac-mismatch", "bad-request">>

Stale(ts, current) ==
  ts + HMAC_MAX_DRIFT_MS < current \/ current + HMAC_MAX_DRIFT_MS < ts

Fails(check, e, key, current) ==
  CASE check = "missing-nonce" -> e.nonce \in {None, Some(<<>>)}
    [] check = "missing-ts" -> e.ts = None
    [] check = "missing-hmac" -> e.hmac \in {None, Some(<<>>)}
    [] check = "missing-request" -> e.request_json \in {None, Some(<<>>)}
    [] check = "expired" -> IsSome(e.ts) /\ Stale(Unwrap(e.ts), current)
    [] check = "hmac-mismatch" ->
         \/ ~IsSome(e.hmac)
         \/ Unwrap(e.hmac) # hmac_sha256_hex(key,
               hmac_message(OrEmpty(e.nonce), IF IsSome(e.ts) THEN Unwrap(e.ts) ELSE 0,
                            OrEmpty(e.request_json)))
    [] check = "bad-request" -> ~parse_exec_host_request(OrEmpty(e.request_json)).ok

FirstFailure(e, key, current) ==
  LET failing == {i \in 1..Len(CheckOrder) : Fails(CheckOrder[i], e, key, current)}
  IN  IF failing = {} THEN "ok"
      ELSE CheckOrder[CHOOSE i \in failing : \A j \in failing : i <= j]

RejectedExec == out.kind = "exec" /\ out.line # None
RejectedEnvelope == parse_exec_envelope(Unwrap(out.line))

\* C2: the response to an exec envelope carries the code of the first check
\* that fails, in the order missing-nonce, missing-ts, missing-hmac,
\* missing-request, expired, hmac-mismatch, bad-request; a rejected envelope
\* registers no approval and spawns nothing, and an envelope that got past
\* validation fails none of the checks.
C2_FirstFailingCheck ==
  /\ RejectedExec =>
       /\ FirstFailure(RejectedEnvelope, token, now) # "ok"
       /\ out.resp = Some(make_error_response(FirstFailure(RejectedEnvelope, token, now)))
       /\ pc[out.conn] = "idle"
       /\ cur[out.conn] = NoCur
       /\ Owned(out.conn) = {}
       /\ out.events = <<>>
       /\ ~out.spawned
  /\ \A c \in Conns :
       cur[c].kind = "exec" =>
         FirstFailure(parse_exec_envelope(Unwrap(cur[c].line)), token, cur[c].at) = "ok"

\* An envelope that fails three checks is answered with the first of them.
C2_Witness ==
  /\ RejectedExec
  /\ out.resp = Some(make_error_response("missing-hmac"))
  /\ Fails("expired", RejectedEnvelope, token, now)
  /\ Fails("bad-request", RejectedEnvelope, token, now)
  /\ pending_approvals = <<>>

\* C3 as stated: every exec envelope whose timestamp is more than 60000 ms
\* from the current time is answered "expired".
C3_StaleAlwaysExpired ==
  (RejectedExec /\ Fails("expired", RejectedEnvelope, token, now)) =>
    out.resp = Some(make_error_response("expired"))

\* C3, amended: an exec envelope that carries a nonce, an hmac and a
\* requestJson (none empty), and whose timestamp is more than 60000 ms from
\* the current time, is answered "expired" whether or not its HMAC is the
\* right one; no envelope with such a timestamp gets past validation.
C3_StaleWithFieldsExpired ==
  /\ ( /\ RejectedExec
       /\ Fails("expired", RejectedEnvelope, token, now)
       /\ ~Fails("missing-nonce", RejectedEnvelope, token, now)
       /\ ~Fails("missing-hmac", RejectedEnvelope, token, now)
       /\ ~Fails("missing-request", RejectedEnvelope, token, now) ) =>
       out.resp = Some(make_error_response("expired"))
  /\ \A c \in Conns :
       cur[c].kind = "exec" =>
         ~Fails("expired", parse_exec_envelope(Unwrap(cur[c].line)), token, cur[c].at)

\* A stale envelope with the right HMAC is answered "expired".
C3_Witness ==
  /\ RejectedExec
  /\ out.resp = Some(make_error_response("expired"))
  /\ ~Fails("hmac-mismatch", RejectedEnvelope, token, now)
  /\ Unwrap(RejectedEnvelope.ts) > now

\* C4: when no decision arrives within the approval timeout the outcome is
\* "deny" (the "denied" response for an exec request, the deny decision frame
\* for a remote request), and the pending entry of a request is removed from
\* the registry exactly once: it is there while the handler waits, gone once
\* the handler went on, and never removed a second time.
C4_TimeoutDeniesRemovedOnce ==
  /\ \A c \in Conns :
       /\ cur[c].how = "timeout" => cur[c].decision = "deny"
       /\ cur[c].removed <= 1
       /\ Cardinality(Owned(c)) <= 1
       /\ pc[c] \in {"recv", "retain"} => (cur[c].removed = 0 <=> Owned(c) # {})
       /\ (pc[c] = "run" /\ ViaApproval(c)) => (cur[c].removed = 1 /\ Owned(c) = {})
       /\ pc[c] = "idle" => Owned(c) = {}
  /\ out.via = "approval" => out.removed = 1
  /\ out.how = "timeout" =>
       /\ out.decision = "deny"
       /\ ~out.spawned
       /\ out.kind = "exec" => out.resp = Denied
       /\ out.kind = "request" => out.resp = Some(decision_frame("deny"))

C4_Witness ==
  /\ out.how = "timeout"
  /\ out.kind = "request"
  /\ out.removed = 1
  /\ out.resp = Some(decision_frame("deny"))

\* C5 as stated: of the decisions sent for one pending approval only the
\* first is accepted; no handler's approval has a second decision accepted.
C5_SecondDecisionFails ==
  \A c \in Conns : Len(cur[c].accepted) <= 1

\* C6 as stated: resolving one pending approval leaves every other pending
\* entry in the registry; a handler that still waits for a decision still has
\* its entry, caller-supplied ids included.
C6_OthersStayPending ==
  \A c \in Conns : pc[c] = "recv" => Owned(c) # {}

PreDecided(c) == Unwrap(cur[c].request).approval_decision

\* C7: an exec request that carries the approval decision allow-once or
\* allow-always is run directly: no pending entry, no approval event, no
\* decision awaited. Every other valid exec request (no decision field,
\* "deny", any other text) goes through the approval flow: it emits
\* approval-pending first and reaches the command only after a decision.
C7_DirectOnlyWhenPreApproved ==
  /\ \A c \in Conns :
       cur[c].kind = "exec" =>
         IF PreDecided(c) \in {Some("allow-once"), Some("allow-always")}
         THEN /\ cur[c].direct
              /\ pc[c] = "run"
              /\ Owned(c) = {}
              /\ cur[c].events = <<>>
              /\ cur[c].id = <<>>
              /\ cur[c].accepted = <<>>
         ELSE /\ ~cur[c].direct
              /\ cur[c].events # <<>>
              /\ cur[c].events[1].name = "approval-pending"
              /\ (pc[c] = "recv" /\ cur[c].removed = 0) => Owned(c) # {}
              /\ pc[c] = "run" =>
                   /\ cur[c].how = "decided"
                   /\ Len(cur[c].events) = 2
                   /\ cur[c].events[2].name = "approval-resolved"
  /\ out.via = "direct" =>
       /\ out.kind = "exec"
       /\ out.events = <<>>
       /\ out.removed = 0
       /\ out.accepted = <<>>
       /\ out.how = ""
  /\ out.via = "approval" => out.events = <<"approval-pending", "approval-resolved">>

C7_Witness ==
  \E c \in Conns :
    /\ pc[c] = "run"
    /\ cur[c].direct
    /\ PreDecided(c) = Some("allow-always")
    /\ pending_approvals = <<>>

\* Two exec requests that differ at most in the values of their environment
\* variables.
SameButEnvValues(r1, r2) ==
  /\ [r1 EXCEPT !.env = None] = [r2 EXCEPT !.env = None]
  /\ IsSome(r1.env) = IsSome(r2.env)
  /\ IsSome(r1.env) => DOMAIN Unwrap(r1.env) = DOMAIN Unwrap(r2.env)

ExecPending(c) == cur[c].kind = "exec" /\ ViaApproval(c)
WithoutIdAndExpiry(p) == [p EXCEPT !.id = <<>>, !.expires_at_ms = 0]
Names(keys) == {keys[i] : i \in 1..Len(keys)}
WithoutKeyOrder(p) == [WithoutIdAndExpiry(p) EXCEPT !.env_keys = Names(@)]

\* C8 as stated: two exec requests that differ only in environment values
\* publish previews that are identical but for the id and the expiry.
C8_IdenticalPreviews ==
  \A c1, c2 \in Conns :
    ( /\ ExecPending(c1)
      /\ ExecPending(c2)
      /\ SameButEnvValues(Unwrap(cur[c1].request), Unwrap(cur[c2].request)) ) =>
      WithoutIdAndExpiry(Published(c1)) = WithoutIdAndExpiry(Published(c2))

\* C8, amended: the preview published for an exec request (the payload of
\* approval-pending and the preview kept in the registry) lists in env_keys
\* exactly the names of the request's environment variables, each once, in
\* some order, and no value; two requests that differ only in environment
\* values publish previews that are identical but for the id, the expiry and
\* the order of the names in env_keys.
C8_PreviewNamesOnly ==
  /\ \A c \in Conns :
       ExecPending(c) =>
         LET request == Unwrap(cur[c].request)
             names == IF IsSome(request.env) THEN DOMAIN Unwrap(request.env) ELSE {}
         IN  /\ Names(Published(c).env_keys) = names
             /\ Len(Published(c).env_keys) = Cardinality(names)
             /\ \A i \in Owned(c) : pending_approvals[i].preview = Published(c)
  /\ \A c1, c2 \in Conns :
       ( /\ ExecPending(c1)
         /\ ExecPending(c2)
         /\ SameButEnvValues(Unwrap(cur[c1].request), Unwrap(cur[c2].request)) ) =>
         WithoutKeyOrder(Published(c1)) = WithoutKeyOrder(Published(c2))

\* Two pending requests with different values for the same names.
C8_Witness ==
  \E c1, c2 \in Conns :
    /\ pc[c1] = "recv" /\ ExecPending(c1)
    /\ pc[c2] = "recv" /\ ExecPending(c2)
    /\ Owned(c1) # {} /\ Owned(c2) # {}
    /\ Unwrap(cur[c1].request).env # Unwrap(cur[c2].request).env
    /\ SameButEnvValues(Unwrap(cur[c1].request), Unwrap(cur[c2].request))

RemoteAnswered == out.kind = "request" /\ out.line # None

\* C9: a remote-approval request whose token is absent or differs from the
\* shared token is answered auth-failed, and the step that answers it changes
\* neither the registry nor any handler and emits no event; every remote
\* request that was registered carried the shared token.
C9_BadTokenRejected ==
  /\ [](\A c \in Conns : cur[c].kind = "request" => cur[c].auth = Some(approval_shared_token))
  /\ [](RemoteAnswered =>
          /\ Unwrap(out.line).token # Some(approval_shared_token)
          /\ out.resp = Some(make_error_response("auth-failed"))
          /\ out.events = <<>>)
  /\ [][RemoteAnswered' =>
          /\ pending_approvals' = pending_approvals
          /\ cur' = cur
          /\ pc' = pc
          /\ uuids' = uuids]_vars

C9_Witness ==
  /\ RemoteAnswered
  /\ Unwrap(out.line).token = None
  /\ out.resp = Some(make_error_response("auth-failed"))
  /\ pending_approvals # <<>>

Waiting(c) == pc[c] \in {"recv", "retain", "run"}

\* C11 as stated: every request line that is not empty gets one response
\* line, and no request closes the connection.
C11_EveryLineAnswered ==
  \A c \in Conns :
    /\ pc[c] # "closed"
    /\ pc[c] = "idle" => io[c].written = io[c].read - io[c].blank

\* C11, amended: on one connection every request line of valid UTF-8 text
\* that is not blank gets exactly one response line, in request order (at most
\* one request is unanswered, and no further line is read before its
\* response is written); after any response, a rejection included, the
\* connection is open and reads its next line; only a line that is not valid
\* UTF-8 ends the connection, without a response.
C11_TextLinesAnswered ==
  \A c \in Conns :
    /\ io[c].written =
         io[c].read - io[c].blank - io[c].bad - (IF Waiting(c) THEN 1 ELSE 0)
    /\ io[c].rejected <= io[c].written
    /\ pc[c] = "closed" <=> io[c].bad = 1
    /\ (out.resp # None /\ out.conn = c) => pc[c] = "idle"

\* A request is run on a connection that had a request rejected before.
C11_Witness ==
  \E c \in Conns :
    /\ io[c].rejected = 1
    /\ io[c].written = 1
    /\ io[c].read = 2
    /\ pc[c] = "run"
    /\ cur[c].kind = "exec"

\* ------------------------------------------------------------------ gateway
PairingRejections(connect_id) ==
  {f \in HandshakeFrames(connect_id) :
     /\ f.kind = "res" /\ f.id = connect_id /\ ~f.ok
     /\ f.code \in {"PAIRING_REQUIRED", "1008"}
     /\ IsSome(f.request_id)}

\* C12: when the gateway rejects the connect request with PAIRING_REQUIRED or
\* 1008 and a requestId, the status becomes pairing with that requestId and
\* the device id, gateway-pairing-required carries both, and the session is
\* over: it sends no frame any more, starts nothing again, and its sender is
\* never installed as the outbound RPC sender.
C12_PairingRequired ==
  /\ [][\A s \in Sessions :
         /\ \A f \in PairingRejections(sessions[s].connect_id) :
              handshake_frame(s, f) =>
                /\ status' = Status("pairing", None, f.request_id, Some(DeviceId))
                /\ emitted'.event = "gateway-pairing-required"
                /\ emitted'.request_id = f.request_id
                /\ emitted'.device_id = Some(DeviceId)
                /\ sessions'[s].end = "pairing"
                /\ sessions'[s].sent = sessions[s].sent
                /\ tx' = tx
         /\ sessions[s].end = "pairing" =>
              /\ sessions'[s] = sessions[s]
              /\ emitted'.session # s]_vars
  /\ [](\A s \in Sessions :
          sessions[s].end = "pairing" => sessions[s].pc = "done" /\ tx # Some(s))

C12_Witness ==
  /\ emitted.event = "gateway-pairing-required"
  /\ emitted.request_id = Some("abc123")
  /\ status = Status("pairing", None, Some("abc123"), Some(DeviceId))
  /\ \E s \in Sessions : sessions[s].end = "pairing" /\ sessions[s].sent = 1

\* The entry of call k in the pending table of a session.
Entry(k) == [id |-> rpcs[k].id, call |-> k]

\* C13: a call that got no response within 30 s returns the timeout error,
\* and from then on no pending entry matches its id, so that a late response
\* with that id finds nothing.
C13_TimedOutEntryGone ==
  \A k \in Calls :
    rpcs[k].result = "RPC timed out" =>
      \A s \in Sessions : Entry(k) \notin sessions[s].pending

\* The session left its main loop and has returned.
LoopExited(s) == sessions[s].pc = "done" /\ sessions[s].end \in {"closed", "sender dropped"}

\* C14: when the main loop exits, the task writes the status disconnected as
\* its last status, answers every reply still pending with an error and
\* leaves the pending table empty; once it has returned, every call whose
\* frame it sent has an outcome.
C14_DrainOnExit ==
  /\ [][\A s \in Sessions :
         /\ (sessions[s].pc = "exit_status" /\ sessions'[s].pc = "drain") =>
              status' = DefaultStatus
         /\ (sessions[s].pc = "drain" /\ sessions'[s].pc = "done") =>
              /\ status' = status
              /\ emitted' = Disconnected(s, None)
              /\ \A k \in Calls :
                   (rpcs[k].pc = "waiting" /\ Entry(k) \in sessions[s].pending) =>
                     rpcs'[k].pc = "done" /\ rpcs'[k].result = "Connection closed"]_vars
  /\ [](\A s \in Sessions :
          LoopExited(s) =>
            /\ sessions[s].pending = {}
            /\ \A k \in Calls :
                 (rpcs[k].session = s /\ rpcs[k].framed) =>
                   rpcs[k].pc = "done" /\ rpcs[k].result # ""
            /\ (disconnects.calls = 0 /\ \A t \in Sessions \ {s} : sessions[t].pc = "none") =>
                 status = DefaultStatus /\ tx = None)

C14_Witness ==
  \E s \in Sessions : \E k \in Calls :
    /\ LoopExited(s)
    /\ rpcs[k].session = s /\ rpcs[k].framed
    /\ rpcs[k].result = "Connection closed"
    /\ status = DefaultStatus
    /\ emitted = Disconnected(s, None)

\* C15: a call made while the status is pairing, error or disconnected, and
\* any call once the main loop of its session has exited, returns an error
\* without a frame being sent for it and without waiting for a reply until
\* the 30 s timeout.
C15_FailFast ==
  \A k \in Calls :
    /\ rpcs[k].seen \in {"pairing", "error", "disconnected"} =>
         /\ ~rpcs[k].framed
         /\ rpcs[k].result \notin {"ok", "RPC error", "RPC timed out"}
    /\ (rpcs[k].pc = "waiting" /\ ~rpcs[k].framed) => sessions[rpcs[k].session].pc # "done"

\* gateway_disconnect has cleared the sender of session s, the only session
\* there is, while s is in its main loop.
DisconnectRequested(s) ==
  /\ disconnects.calls > 0
  /\ tx = None
  /\ sessions[s].pc = "main"
  /\ \A t \in Sessions \ {s} : sessions[t].pc = "none"

\* C16: once gateway_disconnect has dropped the sender, the session does not
\* serve its channel any more: no frame is written for a queued request, and
\* no call in flight ends by its own 30 s timeout (the drain answers it).
C16_DisconnectSignal ==
  [][\A s \in Sessions :
       DisconnectRequested(s) =>
         \A k \in Calls :
           (rpcs[k].pc = "waiting" /\ rpcs[k].session = s) =>
             /\ rpcs'[k].framed = rpcs[k].framed
             /\ rpcs'[k].result # "RPC timed out"]_vars

\* C17: the wait for the response to the connect request lasts 15 s at most,
\* counted from the sending of the request, whatever else the peer sends.
C17_HandshakeDeadline ==
  \A s \in Sessions :
    sessions[s].pc = "handshake" =>
      /\ now <= sessions[s].sent_at + HANDSHAKE_READ_TIMEOUT_MS
      /\ sessions[s].read_deadline = sessions[s].sent_at + HANDSHAKE_READ_TIMEOUT_MS

\* The session ended by one of the failures that are not a pairing rejection.
Failed(s) == sessions[s].pc = "done" /\ sessions[s].end = "error"

\* C20: when the connect fails or times out, the connect request cannot be
\* sent, the stream closes or ends during the handshake, or the gateway
\* rejects the request for another reason than pairing, the session sets the
\* status error with a message, emits gateway-disconnected with that message
\* and is over: it sends no frame any more, installs no sender and nothing
\* starts another attempt but gateway_connect.
C20_FailureStops ==
  /\ [][\A s \in Sessions :
         /\ (~Failed(s) /\ Failed(s)') =>
              /\ status'.state = "error"
              /\ IsSome(status'.error)
              /\ emitted' = Disconnected(s, status'.error)
              /\ sessions'[s].sent = sessions[s].sent
              /\ tx' = tx
         /\ Failed(s) =>
              /\ sessions'[s] = sessions[s]
              /\ emitted'.session # s
         /\ (sessions[s].pc = "none" /\ sessions'[s].pc # "none") =>
              sessions'[s].by = "gateway_connect"]_vars
  /\ [](\A s \in Sessions : Failed(s) => tx # Some(s) /\ sessions[s].pending = {})

C20_Witness ==
  \E s \in Sessions :
    /\ Failed(s)
    /\ sessions[s].sent = 1
    /\ status = ErrorStatus("bad token")
    /\ emitted = Disconnected(s, Some("bad token"))

\* C18: the status moves only along
\* disconnected -> connecting -> {connected, pairing, error} -> disconnected:
\* connected, pairing and error are entered from connecting only, and
\* connecting is entered from disconnected only.
C18_StatusPath ==
  [][status'.state # status.state =>
       \/ status.state = "disconnected" /\ status'.state = "connecting"
       \/ status.state = "connecting" /\ status'.state \in {"connected", "pairing", "error"}
       \/ status.state \in {"connected", "pairing", "error"} /\ status'.state = "disconnected"]_vars

\* C19: there is one gateway connection at a time: no two session tasks
\* hold an open transport, whatever the order of the automatic connect,
\* gateway_connect and gateway_disconnect.
C19_SingleConnection ==
  Cardinality({s \in Sessions : TransportOpen(s)}) <= 1

\* ------------------------------------------------------------ connect request
HasCredentials ==
  \/ IsSome(connect.token)
  \/ IsSome(connect.password)
  \/ connect.url \in DOMAIN connect.identity.gateway_tokens

Params == Unwrap(connect.request).params

\* C21: the params of the connect request have no auth key at all exactly
\* when there is no token, no password and no stored device token for the
\* url; otherwise auth is there and is an object with a member.
C21_AuthAbsentOrFilled ==
  connect.pc = "sent" =>
    /\ "auth" \notin DOMAIN Params <=> ~HasCredentials
    /\ "auth" \in DOMAIN Params => DOMAIN Params.auth # {}

C21_Witness ==
  /\ connect.pc = "sent"
  /\ ~HasCredentials
  /\ "auth" \notin DOMAIN Params
  /\ connect.first.kind = "timeout"

\* C22: the connect request has a device assertion exactly when the wait
\* gave a connect.challenge with a nonce and the stored private key decodes
\* to 32 bytes; whatever the wait ends with, the request is built and handed
\* to the socket.
C22_DeviceAssertion ==
  /\ [](connect.pc = "sent" =>
          /\ IsSome(connect.request)
          /\ "device" \in DOMAIN Params <=>
               /\ connect.first.kind = "text"
               /\ connect.first.type = "event"
               /\ connect.first.event = "connect.challenge"
               /\ IsSome(connect.first.nonce)
               /\ connect.identity.private_key_bytes = "b64url:32"
          /\ "device" \in DOMAIN Params =>
               /\ Params.device.nonce = Unwrap(connect.first.nonce)
               /\ Params.device.id = connect.identity.device_id)
  /\ [][connect.pc = "challenge" => connect'.pc = "build"]_vars
  /\ [][connect.pc = "build" => connect'.pc = "sent"]_vars

C22_Witness ==
  /\ connect.pc = "sent"
  /\ connect.first.kind = "timeout"
  /\ connect.identity.private_key_bytes = "b64url:32"
  /\ IsSome(connect.request)
  /\ "device" \notin DOMAIN Params

\* ------------------------------------------------------------ node supervisor
\* Thread t returns from the call it is in.
Returns(t) == node_calls[t].pc # "idle" /\ node_calls'[t].pc = "idle"

\* C23: every stop that ran alone returns with the status stopped published,
\* no child tracked, no worker alive and no error recorded by it; a worker
\* that did not end within 5 s of the request to terminate has been killed
\* and waited for.
C23_StopEndsStopped ==
  [][\A t \in NodeThreads :
       (Returns(t) /\ node_calls[t].op = "stop" /\ node_calls[t].alone) =>
         /\ node_calls'[t].result = "ok"
         /\ runtime'.node_status = Some("stopped")
         /\ runtime'.emitted = "stopped"
         /\ runtime'.child = None
         /\ Alive(workers') = {}
         /\ runtime'.last_error # Some("failed to stop")]_vars

\* Every call so far has run without another call at the same time.
Sequential == \A t \in NodeThreads : node_calls[t].alone

\* Nothing but start has been called so far.
StartsOnly == \A t \in NodeThreads : node_calls[t].starts_only

\* C24: with calls of start made one after the other, start spawns a worker only
\* when, after its look at the tracked child, none is tracked; a start that
\* finds the tracked child alive returns without a change; a child found
\* exited is cleared and logged first. So one worker at most is alive, and a
\* start that returned Ok left exactly one, the tracked child.
C24_StartOnce ==
  /\ [][(Sequential' /\ StartsOnly') =>
          /\ Len(workers') > Len(workers) => runtime.child = None /\ Alive(workers) = {}
          /\ \A t \in NodeThreads :
               /\ (start_refresh(t) /\ runtime.child # None
                     /\ workers[Unwrap(runtime.child)].state = "alive") =>
                    /\ Returns(t)
                    /\ runtime' = runtime /\ workers' = workers
               /\ (start_refresh(t) /\ runtime.child # None
                     /\ workers[Unwrap(runtime.child)].state # "alive") =>
                    /\ runtime'.child = None
                    /\ node_calls'[t].pc = "start_again"
               /\ (Returns(t) /\ node_calls[t].op = "start" /\ node_calls'[t].result = "ok") =>
                    /\ runtime'.child # None
                    /\ Alive(workers') \subseteq {Unwrap(runtime'.child)}]_vars
  /\ []((Sequential /\ StartsOnly) => Cardinality(Alive(workers)) <= 1)

C24_Witness ==
  /\ Sequential
  /\ StartsOnly
  /\ \E t \in NodeThreads :
       /\ node_calls[t].made = 2 /\ node_calls[t].op = "start"
       /\ node_calls[t].pc = "idle" /\ node_calls[t].result = "ok"
  /\ Len(workers) = 1
  /\ runtime.child = Some(1)
  /\ workers[1].state = "alive"

\* C25: once a failure of the worker process has been observed, the status is
\* neither starting nor running: at the return of a start that failed, and at
\* the step that finds the tracked child exited with an error.
C25_FailureReconciled ==
  /\ [][\A t \in NodeThreads :
          (Returns(t) /\ node_calls[t].op = "start" /\ node_calls'[t].result # "ok") =>
            runtime'.node_status \notin {Some("starting"), Some("running")}]_vars
  /\ [][\A w \in DOMAIN workers :
          (workers[w].state = "exited" /\ ~workers[w].success
             /\ workers'[w].state = "waited" /\ runtime.child = Some(w)) =>
            runtime'.node_status \in {Some("error"), Some("stopped")}]_vars

\* --------------------------------------------------------------- exec runner
\* The command was spawned and run_exec_command has returned.
Ran == run.pc = "done" /\ run.child # "none"

\* C26: the timeout is timeoutMs when positive and 120 s otherwise; a command
\* not ended by then is killed and waited for and reported with timed_out,
\* no exit code and no success; and run_exec_command is never still at work
\* after its deadline.
C26_TimeoutEnforced ==
  /\ [][run.pc = "spawn" /\ run'.pc = "waiting" =>
          run'.deadline = now +
            (IF run.timeout_ms \in {None, Some(-1), Some(0)}
             THEN DEFAULT_TIMEOUT_MS ELSE Unwrap(run.timeout_ms))]_vars
  /\ [][run.pc = "waiting" /\ run'.pc = "kill" => now >= run.deadline]_vars
  /\ [][run.pc = "kill" /\ run'.pc # "kill" =>
          /\ run'.pc = "done"
          /\ run'.child \in {"killed", "reaped"}
          /\ Unwrap(run'.result).timed_out
          /\ Unwrap(run'.result).exit_code = None
          /\ ~Unwrap(run'.result).success]_vars
  /\ [](run.pc \in {"waiting", "kill", "read_stdout", "read_stderr"} => now <= run.deadline)

\* C27: a command that ends by itself before the timeout, whatever it writes,
\* is reported with the exit code and the success of its status and with all
\* it wrote to stdout and stderr, and not as timed out.
C27_CompletedRunReported ==
  [](/\ Ran
     /\ run.command.takes < timeout(run.timeout_ms)
     /\ Unwrap(run.result).error # Some("wait error")
     => /\ ~Unwrap(run.result).timed_out
        /\ Unwrap(run.result).exit_code = run.command.status
        /\ Unwrap(run.result).success = (run.command.status = Some(0))
        /\ Unwrap(run.result).stdout = run.command.stdout
        /\ Unwrap(run.result).stderr = run.command.stderr)

\* ------------------------------------------------------------- identity file
\* Identity `new` is `old` with the device token of `url` added or refreshed.
Keeps(old, new, url) ==
  /\ new.device_id = old.device_id
  /\ new.public_key_bytes = old.public_key_bytes
  /\ new.private_key_bytes = old.private_key_bytes
  /\ \A u \in DOMAIN old.gateway_tokens :
       /\ u \in DOMAIN new.gateway_tokens
       /\ u # url => new.gateway_tokens[u] = old.gateway_tokens[u]

\* Task t completes a write of the identity file.
Writes(t) ==
  /\ store.tasks[t].pc \in {"create_write", "save_write"}
  /\ store'.tasks[t].pc \in {"handshake", "done"}

\* C28: a load that finds an identity in the file returns it; and while the
\* file has not been missing or corrupt since an identity was persisted, what
\* is written to it is that identity with at most the device token of the
\* writing task's gateway added or refreshed.
C28_IdentityStable ==
  /\ [][\A t \in StoreTasks :
          (store.tasks[t].pc = "read" /\ store'.tasks[t].found = "identity") =>
            store'.tasks[t].identity = store.file]_vars
  /\ [][\A t \in StoreTasks :
          (Writes(t) /\ store.intact /\ IsSome(store.last)) =>
            Keeps(Unwrap(store.last), Unwrap(store'.file), store.tasks[t].url)]_vars

\* C29: a crash leaves the file absent or a complete identity, never a part
\* of one, and an identity persisted before a crash is never replaced by one
\* of a new key pair after it.
C29_AtomicPersist ==
  /\ [][store'.crashes > store.crashes => store'.file # Some(Partial)]_vars
  /\ [][(IsSome(store.last) /\ ~store.intact /\ IsIdentity(store'.file)) =>
          Unwrap(store'.file).device_id = Unwrap(store.last).device_id]_vars

\* ----------------------------------------------------------------- HMAC check
\* The fields an envelope carries, and the digest of them under the key of
\* the server.
SentFields(line) ==
  [nonce |-> Unwrap(line.nonce), ts |-> line.ts.v, request_json |-> Unwrap(line.requestJson)]

ValidDigest(line) ==
  line.hmac = Some(hmac_sha256_hex(token,
                     hmac_message(Unwrap(line.nonce), line.ts.v, Unwrap(line.requestJson))))

HmacMismatch == out.resp = Some(make_error_response("hmac-mismatch"))

\* C30 as stated: an envelope with the digest of its fields passes the HMAC
\* check; an envelope whose digest differs from it, or whose nonce, ts or
\* requestJson are not the ones that were signed, is answered hmac-mismatch.
C30_HmacBothWays ==
  /\ RejectedExec =>
       LET line == Unwrap(out.line)
       IN  /\ ValidDigest(line) => ~HmacMismatch
           /\ (~ValidDigest(line) \/ line.signed # SentFields(line)) => HmacMismatch
  /\ \A c \in Conns :
       cur[c].kind = "exec" =>
         LET line == Unwrap(cur[c].line)
         IN  ValidDigest(line) /\ line.signed = SentFields(line)

\* C30, amended: an envelope is answered hmac-mismatch exactly when its digest
\* is not the digest of the text nonce:ts:requestJson of its own fields under
\* the key of the server; that is, unless it was signed with that key, no bit
\* of the digest was changed, and the fields signed make the same text as the
\* fields sent. No other envelope gets past the check.
C30_HmacByMessage ==
  /\ RejectedExec =>
       LET line == Unwrap(out.line)
           sent == SentFields(line)
       IN  /\ HmacMismatch <=> ~ValidDigest(line)
           /\ HmacMismatch <=>
                ~(/\ line.key = token
                  /\ ~line.flipped
                  /\ hmac_message(line.signed.nonce, line.signed.ts, line.signed.request_json)
                       = hmac_message(sent.nonce, sent.ts, sent.request_json))
  /\ \A c \in Conns :
       cur[c].kind = "exec" =>
         LET line == Unwrap(cur[c].line)
         IN  ValidDigest(line) /\ line.key = token /\ ~line.flipped

\* An envelope whose fields are not the signed ones, and make the same text,
\* has passed the HMAC check.
C30_Witness ==
  /\ RejectedExec
  /\ out.resp = Some(make_error_response("bad-request"))
  /\ Unwrap(out.line).signed # SentFields(Unwrap(out.line))
  /\ Unwrap(out.line).key = token
  /\ ~Unwrap(out.line).flipped

\* The members of exec-approvals.json other than the registration entry.
OtherContent(file) == Restrict(Unwrap(file), DOMAIN Unwrap(file) \ {"socket"})

\* The file publishes an endpoint address or a secret.
Publishes(file) ==
  /\ IsSome(file)
  /\ "socket" \in DOMAIN Unwrap(file)
  /\ DOMAIN Unwrap(file)["socket"] \cap {"path", "token"} # {}

\* Registering the same endpoint address and secret twice leaves the file as
\* after registering once.
C31_RegisterTwice ==
  \A socket_path \in SocketPaths, tok \in ApprovalTokens :
    LET once == merge_exec_approvals_socket(approvals_file.file, socket_path, tok, TRUE)
    IN  merge_exec_approvals_socket(once, socket_path, tok, TRUE) = once

\* Clearing twice equals clearing once.
C31_ClearTwice ==
  LET once == clear_exec_approvals_socket(approvals_file.file, TRUE)
  IN  clear_exec_approvals_socket(once, TRUE) = once

\* After a shutdown whose clearing met no file system error the file
\* publishes no endpoint address and no secret.
C31_ShutdownClears ==
  approvals_file.phase = "exited" /\ approvals_file.ok => ~Publishes(approvals_file.file)

\* Registration and clearing leave the other content of an existing file as
\* it was.
C31_OtherContentKept ==
  [][approvals_file'.op \in {"register", "clear"} /\ IsSome(approvals_file.file)
       => OtherContent(approvals_file'.file) = OtherContent(approvals_file.file)]_vars

\* C31: writes to the registration file are idempotent and keep the rest of
\* the file: registering the same address and secret twice equals registering
\* once, clearing twice equals clearing once, registering and clearing leave
\* defaults, agents and unknown members unchanged, and after a clean shutdown
\* the file publishes no address and no secret.
C31_RegistrationFile ==
  /\ [](C31_RegisterTwice /\ C31_ClearTwice /\ C31_ShutdownClears)
  /\ C31_OtherContentKept

\* The places that hold the reply sender of call k: the rpc channel of a
\* session or its pending map.
Holders(k) ==
  {s \in Sessions : Entry(k) \in sessions[s].pending}
    \cup {s \in Sessions : Entry(k) \in Queued(s)}

\* An entry appears in the pending map only in a step that takes its request
\* from the channel and sends its frame.
C32_RegisteredAfterSend ==
  [][\A s \in Sessions : \A req \in sessions'[s].pending \ sessions[s].pending :
       /\ sessions[s].queue # <<>>
       /\ req = Head(sessions[s].queue)
       /\ sessions'[s].queue = Tail(sessions[s].queue)
       /\ sessions'[s].sent = sessions[s].sent + 1]_vars

\* A failed send registers nothing and fails the caller.
C32_SendFailure ==
  [][\A s \in Sessions :
       main_recv_rpc(s, FALSE) =>
         LET req == Head(sessions[s].queue)
         IN  /\ sessions'[s].pending = sessions[s].pending
             /\ rpcs[req.call].pc = "waiting" =>
                  rpcs'[req.call].pc = "done" /\ rpcs'[req.call].result = "send failed"]_vars

\* A "res" frame removes the entry with its id and no other, and resolves the
\* caller of that entry and no other.
C32_ResRemovesItsEntry ==
  [][\A s \in Sessions : \A f \in MainFrames :
       main_frame(s, f) /\ f.kind = "res" =>
         /\ sessions'[s].pending = {req \in sessions[s].pending : req.id # f.id}
         /\ \A k \in Calls :
              IF Entry(k) \in sessions[s].pending /\ rpcs[k].id = f.id
                 /\ rpcs[k].pc = "waiting"
              THEN /\ rpcs'[k].pc = "done"
                   /\ rpcs'[k].result = IF f.ok THEN "ok" ELSE "RPC error"
              ELSE rpcs'[k] = rpcs[k]]_vars

\* A "res" frame with an unmatched id, an event, a ping and a frame that does
\* not parse change no entry and no caller.
C32_OtherFramesChangeNothing ==
  [][\A s \in Sessions : \A f \in MainFrames :
       /\ main_frame(s, f)
       /\ \/ f.kind \in {"event", "ping", "malformed"}
          \/ f.kind = "res" /\ \A req \in sessions[s].pending : req.id # f.id
       => /\ sessions'[s].pending = sessions[s].pending
          /\ sessions'[s].queue = sessions[s].queue
          /\ rpcs' = rpcs]_vars

\* A result slot that was resolved stays as it is, and the reply sender of a
\* call is in one place at most and nowhere once the loop has used it.
C32_ResolvedOnce ==
  /\ [][\A k \in Calls :
          rpcs[k].pc = "done" => rpcs'[k].pc = "done" /\ rpcs'[k].result = rpcs[k].result]_vars
  /\ [](\A k \in Calls :
          /\ Cardinality(Holders(k)) <= 1
          /\ \A s \in Sessions :
               Cardinality({i \in 1..Len(sessions[s].queue) :
                              sessions[s].queue[i] = Entry(k)}) <= 1
          /\ rpcs[k].result \in {"ok", "RPC error", "send failed", "Connection closed"}
               => Holders(k) = {})

\* C32: the PendingRpc entries of the main loop: an entry is registered only
\* after its request frame was sent (a send failure fails the caller and
\* registers nothing), a "res" frame resolves and removes only the entry with
\* its id, every other frame changes no entry, and each caller's result slot
\* is resolved at most once.
C32_PendingLifecycle ==
  /\ C32_RegisteredAfterSend
  /\ C32_SendFailure
  /\ C32_ResRemovesItsEntry
  /\ C32_OtherFramesChangeNothing
  /\ C32_ResolvedOnce

\* Two requests were pending, the later one was answered and the earlier one
\* still waits with its entry in place.
C32_Witness ==
  \E s \in Sessions : \E k, j \in Calls :
    /\ rpcs[k].pc = "done" /\ rpcs[k].result = "ok"
    /\ rpcs[j].pc = "waiting" /\ rpcs[j].id < rpcs[k].id
    /\ Entry(j) \in sessions[s].pending

\* C33: whenever decide_approval(id, d) returned Ok, the approval request id
\* resolves with the decision d: a handler that has settled its decision, by a
\* received value, the 120 s timeout or a dropped sender, carries no accepted
\* decision other than the one it resolves with.
C33_AcceptedDecisionResolves ==
  /\ \A c \in Conns :
       cur[c].how # "" =>
         \A i \in 1..Len(cur[c].accepted) : cur[c].accepted[i] = cur[c].decision
  /\ out.how # "" => \A i \in 1..Len(out.accepted) : out.accepted[i] = out.decision

\* gateway_connect was never called: the only session is the one main() spawned.
NeverConnected == \A s \in Sessions : sessions[s].by # "gateway_connect"

\* C34: a connection attempt that is still connecting or handshaking when
\* gateway_disconnect is called does not later set the status connected or
\* install a sender: once gateway_disconnect has returned, and as long as
\* gateway_connect is not called, the status does not become connected and no
\* sender is installed.
C34_DisconnectStopsAttempt ==
  [][disconnects.calls > 0 /\ disconnects.pc = "idle" /\ NeverConnected /\ NeverConnected'
       => /\ status.state # "connected" => status'.state # "connected"
          /\ tx = None => tx' = None]_vars

\* C35: a session established while an older one is still in its main loop
\* stays usable: the steps of the older session's exit path leave the sender
\* the newer session installed in place and leave its connected status.
C35_NewerSessionKept ==
  [][\A s, t \in Sessions :
       /\ s < t
       /\ sessions[s].pc \in {"exit_tx", "exit_status"}
       /\ sessions'[s].pc # sessions[s].pc
       /\ sessions[t].pc = "main"
       /\ tx = Some(t)
       => /\ tx' = Some(t)
          /\ status.state = "connected" => status'.state = "connected"]_vars

\* C36: in every reachable state the status is connected exactly when a
\* sender is installed, and a gateway_rpc call that found the status connected
\* is not rejected as not connected.
C36_ConnectedIffSender ==
  /\ status.state = "connected" <=> IsSome(tx)
  /\ \A k \in Calls :
       rpcs[k].seen = "connected" => rpcs[k].result # "Gateway not connected"

\* The token the device signature was made over, and the token of auth.token
\* ("" when the request sends none).
SignedToken == Params.device.signature[5]

SentToken ==
  IF "auth" \in DOMAIN Params /\ "token" \in DOMAIN Params.auth THEN Params.auth.token
  ELSE ""

\* C37: whenever the connect request carries a device assertion, the token of
\* the signed payload is the token sent in auth.token of the same request
\* ("" when none is sent), whatever the explicit token, the password and the
\* stored device token are; the stored device token is sent only when neither
\* an explicit token nor a password is configured.
C37_SignedTokenIsSentToken ==
  connect.pc = "sent" =>
    /\ "device" \in DOMAIN Params => SignedToken = SentToken
    /\ IsSome(connect.token) => SentToken = Unwrap(connect.token)
    /\ ~IsSome(connect.token) /\ IsSome(connect.password) => SentToken = ""

\* The worker a call holds in its hands: spawned and not yet stored in the
\* runtime state, or taken out of it to be stopped.
InHand == {node_calls[t].child : t \in {u \in NodeThreads :
                                         node_calls[u].pc \in {"track", "sigterm", "poll", "kill"}}}

\* C38: at most one worker process is alive at any time, and every live
\* worker is the tracked child (or the one a running call is about to track
\* or to stop), whatever the interleaving of the calls of start, stop and
\* restart.
C38_OneTrackedWorker ==
  /\ Cardinality(Alive(workers)) <= 1
  /\ \A w \in Alive(workers) : runtime.child = Some(w) \/ w \in InHand

\* The latest call of every thread was a stop that returned Ok, and nothing
\* has been called since.
StopReturned ==
  \A t \in NodeThreads :
    node_calls[t].pc = "idle" /\ node_calls[t].op = "stop" /\ node_calls[t].result = "ok"

\* Once stop has returned and no call follows, a status that is stopped stays
\* stopped, whatever the reader threads and the fallback thread do.
C39_NoMoveFromStopped ==
  [][StopReturned /\ StopReturned' /\ runtime.node_status = Some("stopped")
       => runtime'.node_status = Some("stopped")]_vars

\* Whenever the status is stopped, no live worker is the tracked child.
C39_StoppedTracksNone ==
  runtime.node_status = Some("stopped") =>
    ~(IsSome(runtime.child) /\ Unwrap(runtime.child) \in Alive(workers))

\* C39: once stop has returned and no start follows, the status stays
\* stopped: neither the log readers of the terminated worker nor the 5 s
\* fallback thread move it away from stopped, and whenever the status is
\* stopped no worker is tracked as running.
C39_StaysStopped ==
  /\ C39_NoMoveFromStopped
  /\ []C39_StoppedTracksNone

\* C40: a handler that waits for an approval decision stops no other work:
\* while approvals are pending, a connection that has a request line to
\* answer and the gateway session that has a frame or an outbound request to
\* handle are never left with every worker thread of the runtime held by a
\* handler that waits for a decision.
C40_WaitingBlocksNothing ==
  \A task \in PoolTasks :
    pool[task].pc = "ready" =>
      Cardinality({u \in PoolTasks : pool[u].pc = "recv"}) < WorkerThreads

====
